---- MODULE Spec2Model ----
(***************************************************************************)
(* A model of the receiving side of the fsutil file-transfer protocol      *)
(* (vendor/github.com/tonistiigi/fsutil/receive.go): the packet-dispatch   *)
(* task of receiver.run, the walker feed (dynamicWalker), the content pull *)
(* (asyncDataFunc) and the wrapped sink (wrappedWriteCloser).              *)
(*                                                                         *)
(* Paths are strings, modelled as sequences of byte values, so that the    *)
(* path conversions, filepath.Dir and the byte-wise string order are       *)
(* computed the way the code computes them.                                *)
(***************************************************************************)
EXTENDS Integers, Sequences, FiniteSets, TLC

\* ------------------------------------------------------------------
\* Bounds of the model
\* ------------------------------------------------------------------

\* Stat packets the peer sends in one transfer (SpecStat).
MaxStats == 3

\* Packets the peer sends in one transfer (Spec).
MaxPackets == 4

\* ------------------------------------------------------------------
\* Strings and paths
\* ------------------------------------------------------------------

\* The byte '/', the separator of wire-form paths (filepath.FromSlash/ToSlash).
Slash == 47

\* The byte '\', the path separator of a backslash-separator platform.
Backslash == 92

\* The platforms the receiver may run on, named by os.PathSeparator.
Separators == {Slash, Backslash}

\* const metadataPath = ".fsutil-metadata"
metadataPath ==
    <<46, 102, 115, 117, 116, 105, 108, 45, 109, 101, 116, 97, 100, 97, 116, 97>>

\* The result of filepath.Dir for a path without a separator: ".".
DotPath == <<46>>

\* The paths the peer names in its Stat packets, in wire form: "a", "a/a",
\* "a/a/a", "a/b", "b", the reserved name, and "a\b" (a plain file name on a
\* slash platform, unrepresentable on a backslash platform).
PeerPaths ==
    { <<97>>, <<97, 47, 97>>, <<97, 47, 97, 47, 97>>, <<97, 47, 98>>, <<98>>,
      metadataPath, <<97, 92, 98>> }

\* The link target the peer names in hardlink Stats: "a/a".
PeerLinkname == <<97, 47, 97>>

VARIABLES
    sep,              \* os.PathSeparator of the receiving platform
    metadataTransfer, \* r.metadataOnly != nil
    pc,               \* packet-dispatch task: "recv", "drain", "ok", "err", "panic"
    err,              \* the error the packet-dispatch task returned
    i,                \* var i uint32: the next identifier
    files,            \* r.files: native path -> identifier
    pipes,            \* r.pipes: identifier -> sink (named by the call that made it)
    orderLast,        \* r.orderValidator: the last path seen
    hlSeen,           \* r.hlValidator: the link targets seen
    metadataParents,  \* stack of parent entries that can be replayed
    metadataBuffer,   \* the Stats buffered for the metadata log
    walkChan,         \* every entry sent on w.walkChan, in order
    walkClosed,       \* w.walkChan is closed
    closeCh,          \* w.closeCh is closed
    recvd,            \* history: the packets the dispatch task received
    ctxDone,          \* the transfer's context is cancelled
    wpc,              \* diff/walk task: "fill", "wait", "ok", "err"
    delivered,        \* entries of walkChan that fill has passed on
    calls,            \* the asyncDataFunc call for each delivered entry
    sent,             \* the packets the receiver sent, in order
    errArg,           \* the text or path the dispatch task's error carries
    gerr,             \* errgroup: the task whose error was the first ("none")
    ret,              \* what Receive returned ("running" until it returns)
    dest,             \* the entry of the reserved name in the destination
    source,           \* the tree the sending peer transfers (SpecTrip)
    lk,               \* the two mutexes and each task's line (SpecLock)
    cacheMountsMu,    \* mm.cacheMountsMu of each MountManager: its holders
    cacheMounts,      \* mm.cacheMounts of each MountManager: key -> share
    sharesMu,         \* sharedCacheRefs.mu: its holders
    shares,           \* sharedCacheRefs.shares: key -> share
    cacheRefsLocker,  \* cacheRefsLocker: the holders of each key's lock
    refShares,        \* the cacheRefShare objects, in order of creation
    refHandles,       \* the cacheRef objects (clones), in order of creation
    mutableRefs,      \* the mutable refs getRefCacheDirNoCache returned
    proc,             \* the goroutines that call getRefCacheDir and Release
    gets              \* the number of getRefCacheDir calls so far

vars ==
    << sep, metadataTransfer, pc, err, i, files, pipes, orderLast, hlSeen,
       metadataParents, metadataBuffer, walkChan, walkClosed, closeCh, recvd,
       ctxDone, wpc, delivered, calls, sent, errArg, gerr, ret, dest,
       source, lk, cacheMountsMu, cacheMounts, sharesMu, shares,
       cacheRefsLocker, refShares, refHandles, mutableRefs, proc, gets >>

\* The state of the mounts package, which no step of a transfer touches.
mountVars ==
    << cacheMountsMu, cacheMounts, sharesMu, shares, cacheRefsLocker,
       refShares, refHandles, mutableRefs, proc, gets >>

\* What the packet-dispatch task never touches.
otherTasks == << wpc, delivered, sent, ret, dest, source, lk, mountVars >>

\* errgroup.Group: the first task that returns an error sets the error of
\* the group (and cancels its context).
FirstErr(g, failed, task) == IF g = "none" /\ failed THEN task ELSE g

\* Byte-wise string order: Go's < on strings.
RECURSIVE StrLess(_, _)
StrLess(p, q) ==
    IF q = <<>> THEN FALSE
    ELSE IF p = <<>> THEN TRUE
    ELSE IF Head(p) = Head(q) THEN StrLess(Tail(p), Tail(q))
    ELSE Head(p) < Head(q)

\* filepath.FromSlash: every '/' becomes the platform separator.
FromSlash(s) == [k \in 1..Len(s) |-> IF s[k] = Slash THEN sep ELSE s[k]]

\* filepath.ToSlash: every platform separator becomes '/'.
ToSlash(s) == [k \in 1..Len(s) |-> IF s[k] = sep THEN Slash ELSE s[k]]

\* os.IsPathSeparator: '/' everywhere, and '\' on a backslash platform.
IsPathSeparator(c) == c = sep \/ (sep = Backslash /\ c = Slash)

\* filepath.Dir of a clean relative native path: the path up to its last
\* separator, or "." when it has none.
Dir(p) ==
    LET seps == {k \in 1..Len(p) : IsPathSeparator(p[k])}
    IN  IF seps = {} THEN DotPath
        ELSE SubSeq(p, 1, (CHOOSE k \in seps : \A j \in seps : j <= k) - 1)

\* ------------------------------------------------------------------
\* Stat records
\* ------------------------------------------------------------------

\* A directory Stat.
DirStat(p) == [path |-> p, mode |-> "dir", linkname |-> <<>>]

\* A regular-file Stat.
RegStat(p) == [path |-> p, mode |-> "reg", linkname |-> <<>>]

\* A hardlink Stat: a regular file that names a link target.
LinkStat(p) == [path |-> p, mode |-> "reg", linkname |-> PeerLinkname]

\* The non-empty Stats the peer may send (types.Stat: Path, Mode, Linkname).
PeerStats ==
    {DirStat(p) : p \in PeerPaths} \cup {RegStat(p) : p \in PeerPaths}
    \cup {LinkStat(p) : p \in PeerPaths}

\* os.FileMode.IsDir
IsDir(st) == st.mode = "dir"

\* A hardlink entry: a regular file that names a link target.
IsHardlink(st) == st.mode = "reg" /\ st.linkname # <<>>

\* fileCanRequestData: the entry's type can carry content (a regular file).
fileCanRequestData(mode) == mode = "reg"

\* ------------------------------------------------------------------
\* Validators
\* ------------------------------------------------------------------

\* Ordering validator: accepts a path strictly greater than the last one seen.
OrderAccepts(last, path) == StrLess(last, path)

\* Hardlink validator: accepts every entry but a hardlink whose target was
\* not seen as an eligible target.
HlAccepts(seen, st) == IsHardlink(st) => st.linkname \in seen

\* Hardlink validator: the eligible targets after an accepted entry.
HlObserve(seen, st) ==
    IF st.mode = "reg" /\ st.linkname = <<>> THEN seen \cup {st.path} ELSE seen

\* ------------------------------------------------------------------
\* The Stat handler of the packet-dispatch task
\* ------------------------------------------------------------------

\* A check that finds every path representable.
Representable_Always(wire) == TRUE

\* The wire path has a faithful native form:
\* filepath.ToSlash(filepath.FromSlash(p)) == p.
Representable(wire) == ToSlash(FromSlash(wire)) = wire

\* In a metadata-only transfer the reserved name is skipped.
SkipsReserved(meta, path) == meta /\ path = metadataPath

\* p.Stat.Path = path; p.Stat.Linkname = filepath.FromSlash(p.Stat.Linkname)
NativeStat(st) ==
    [st EXCEPT !.path = FromSlash(st.path), !.linkname = FromSlash(st.linkname)]

\* A handler that records every entry in the pending table.
FilesAfterStat_Always(fs, metaOnly, st, id) ==
    [q \in DOMAIN fs \cup {st.path} |-> IF q = st.path THEN id ELSE fs[q]]

\* if !metaOnly && fileCanRequestData(mode) { r.files[p.Stat.Path] = i }
FilesAfterStat(fs, metaOnly, st, id) ==
    IF ~metaOnly /\ fileCanRequestData(st.mode)
    THEN [q \in DOMAIN fs \cup {st.path} |-> IF q = st.path THEN id ELSE fs[q]]
    ELSE fs

\* A counter that is never incremented.
NextId_Stuck(id) == id

\* i++ (a uint32: it wraps only after 2^32 Stats, beyond every bound here)
NextId(id) == id + 1

\* Validate without the call of the ordering validator.
Validate_NoOrder(last, seen, st) ==
    IF ~HlAccepts(seen, st) THEN "hardlink" ELSE "ok"

\* Validate without the call of the hardlink validator.
Validate_NoHardlink(last, seen, st) ==
    IF ~OrderAccepts(last, st.path) THEN "order" ELSE "ok"

\* Validate with the hardlink validator called before the ordering validator.
Validate_HardlinkFirst(last, seen, st) ==
    IF ~HlAccepts(seen, st) THEN "hardlink"
    ELSE IF ~OrderAccepts(last, st.path) THEN "order"
    ELSE "ok"

\* Both validators, in sequence: "ok", or the one that rejected.
Validate(last, seen, st) ==
    IF ~OrderAccepts(last, st.path) THEN "order"
    ELSE IF ~HlAccepts(seen, st) THEN "hardlink"
    ELSE "ok"

\* A trim that pops nothing.
TrimTo_None(stack, parent) == stack

\* for { last, ok := peek(); if !ok || parent == last.path { break }; pop() }
RECURSIVE TrimTo(_, _)
TrimTo(stack, parent) ==
    IF stack = <<>> \/ stack[Len(stack)].path = parent THEN stack
    ELSE TrimTo(SubSeq(stack, 1, Len(stack) - 1), parent)

\* PushDir pushing every entry, directory or not.
PushDir_Always(stack, st) == Append(stack, st)

\* if isDir { metadataParents.push(cp) }
PushDir(stack, st) == IF IsDir(st) THEN Append(stack, st) ELSE stack

\* ToForward sending the entry before the items of the stack.
ToForward_EntryFirst(meta, stack, st) ==
    IF meta THEN <<st>> \o stack ELSE <<st>>

\* The entries given to w.update for an entry that is not metadata-only:
\* in a metadata-only transfer the items of the stack, bottom first, and
\* then (line 295) the entry itself.
ToForward(meta, stack, st) == IF meta THEN stack \o <<st>> ELSE <<st>>

\* p.Stat.SizeVT(): the size of the serialized Stat (its path, its link
\* name and one byte for its mode).
SizeVT(st) == Len(st.path) + Len(st.linkname) + 1

\* A record of the metadata log: the length, then the serialized Stat as it
\* came from the wire.
Frame(st) == [n |-> SizeVT(st), stat |-> st]

\* A buffer that is overwritten by every record.
LogAfterStat_Replace(buf, meta, st) == IF meta THEN <<Frame(st)>> ELSE buf

\* if metadataTransfer { dt := metadataBuffer.alloc(n + 4); ... }
LogAfterStat(buf, meta, st) == IF meta THEN Append(buf, Frame(st)) ELSE buf

\* A non-empty Stat packet is received and handled.  keep is the answer of
\* the metadata-only filter, consulted only in a metadata-only transfer.
RecvStat(st, keep) ==
    LET cp      == NativeStat(st)
        metaOnly == metadataTransfer /\ ~keep
        verdict == Validate(orderLast, hlSeen, cp)
        stack   == PushDir(TrimTo(metadataParents, Dir(cp.path)), cp)
        out     == ToForward(metadataTransfer, stack, cp)
        pkt     == [type |-> "STAT", stat |-> st, keep |-> keep]
    IN
    /\ pc = "recv"
    /\ metadataTransfer \/ keep
    /\ recvd' = Append(recvd, pkt)
    /\ IF ~Representable(st.path)
       THEN /\ pc' = "err" /\ err' = "unrepresentable path"
            /\ errArg' = st.path
            /\ UNCHANGED << i, files, orderLast, hlSeen, metadataParents,
                            metadataBuffer, walkChan >>
       ELSE IF SkipsReserved(metadataTransfer, cp.path)
       THEN UNCHANGED << pc, err, errArg, i, files, orderLast, hlSeen,
                         metadataParents, metadataBuffer, walkChan >>
       ELSE
         /\ UNCHANGED errArg
         /\ metadataBuffer' = LogAfterStat(metadataBuffer, metadataTransfer, st)
         /\ files' = FilesAfterStat(files, metaOnly, cp, i)
         /\ i' = NextId(i)
         /\ IF verdict # "ok"
            THEN /\ pc' = "err" /\ err' = verdict
                 /\ UNCHANGED << orderLast, hlSeen, metadataParents, walkChan >>
            ELSE
              /\ orderLast' = cp.path
              /\ hlSeen' = HlObserve(hlSeen, cp)
              /\ IF metaOnly
                 THEN /\ metadataParents' = stack
                      /\ UNCHANGED << pc, err, walkChan >>
                 ELSE IF closeCh
                 THEN /\ pc' = "err" /\ err' = "walker is closed"
                      /\ metadataParents' =
                           IF metadataTransfer THEN stack ELSE metadataParents
                      /\ UNCHANGED walkChan
                 ELSE IF walkClosed
                 THEN /\ pc' = "panic" /\ err' = "send on closed channel"
                      /\ metadataParents' =
                           IF metadataTransfer THEN stack ELSE metadataParents
                      /\ UNCHANGED walkChan
                 ELSE /\ walkChan' = walkChan \o out
                      /\ metadataParents' = <<>>
                      /\ UNCHANGED << pc, err >>
    /\ ctxDone' = (ctxDone \/ pc' = "err")
    /\ gerr' = FirstErr(gerr, pc' = "err", "dispatch")
    /\ UNCHANGED << sep, metadataTransfer, pipes, walkClosed, closeCh, calls,
                    otherTasks >>

\* An empty Stat packet is received: w.update(nil) closes the feed.
RecvStatEOF ==
    /\ pc = "recv"
    /\ recvd' = Append(recvd, [type |-> "EOF"])
    /\ IF closeCh
       THEN /\ pc' = "err" /\ err' = "walker is closed"
            /\ UNCHANGED walkClosed
       ELSE IF walkClosed
       THEN /\ pc' = "panic" /\ err' = "close of closed channel"
            /\ UNCHANGED walkClosed
       ELSE /\ walkClosed' = TRUE
            /\ UNCHANGED << pc, err >>
    /\ ctxDone' = (ctxDone \/ pc' = "err")
    /\ gerr' = FirstErr(gerr, pc' = "err", "dispatch")
    /\ UNCHANGED << sep, metadataTransfer, i, files, pipes, orderLast, hlSeen,
                    metadataParents, metadataBuffer, walkChan, closeCh, calls,
                    errArg, otherTasks >>

\* ------------------------------------------------------------------
\* Specification of the Stat stream: the peer sends Stat packets only
\* ------------------------------------------------------------------

\* The reserved name in the destination: no entry, or an entry that was
\* there before the transfer.
NoEntry == [kind |-> "absent", log |-> <<>>]

\* No tree of a sending peer: the peer sends any packet.
NoSource == <<>>

\* Both mutexes free (no holder) and no task at a line that uses them.
NoLocks == [mu |-> {}, muPipes |-> {}, at |-> << >>]

OldEntry == [kind |-> "old", log |-> <<>>]

\* The MountManagers of the process (NewMountManager).
Managers == {1, 2}

\* The keys of the cache mounts (id, or id:ref).
Keys == {1}

\* The goroutines that call getRefCacheDir and Release.
Procs == {1, 2}

\* A goroutine that is in no call.
IdleProc ==
    [pc |-> "idle", m |-> 0, key |-> 0, sharing |-> "none", h |-> 0, hn |-> 0,
     seen |-> "none", res |-> "none"]

\* NewMountManager, cacheRefs{} and locker.New(): empty tables, free locks.
InitMounts ==
    /\ cacheMountsMu = [m \in Managers |-> {}]
    /\ cacheMounts = [m \in Managers |-> [k \in Keys |-> 0]]
    /\ sharesMu = {}
    /\ shares = [k \in Keys |-> 0]
    /\ cacheRefsLocker = [k \in Keys |-> {}]
    /\ refShares = <<>>
    /\ refHandles = <<>>
    /\ mutableRefs = <<>>
    /\ proc = [p \in Procs |-> IdleProc]
    /\ gets = 0

\* Receive: a fresh receiver.
InitReceiver ==
    /\ pc = "recv" /\ err = "none" /\ errArg = <<>>
    /\ gerr = "none" /\ ret = "running"
    /\ i = 0
    /\ files = << >>
    /\ pipes = << >>
    /\ orderLast = <<>>
    /\ hlSeen = {}
    /\ metadataParents = <<>>
    /\ metadataBuffer = <<>>
    /\ walkChan = <<>>
    /\ walkClosed = FALSE
    /\ closeCh = FALSE
    /\ recvd = <<>>
    /\ ctxDone = FALSE
    /\ wpc = "fill"
    /\ delivered = 0
    /\ calls = <<>>
    /\ sent = <<>>

InitStat ==
    /\ sep \in Separators
    /\ metadataTransfer \in BOOLEAN
    /\ dest = NoEntry
    /\ source = NoSource /\ lk = NoLocks
    /\ InitReceiver
    /\ InitMounts

\* The number of Stat packets (empty or not) received so far.
NumStats == Len(SelectSeq(recvd, LAMBDA m : m.type \in {"STAT", "EOF"}))

NextStat ==
    \/ \E st \in PeerStats, keep \in BOOLEAN :
          NumStats < MaxStats /\ RecvStat(st, keep)
    \/ NumStats < MaxStats /\ RecvStatEOF

SpecStat == InitStat /\ [][NextStat]_vars

\* ------------------------------------------------------------------
\* The other packets of the packet-dispatch task
\* ------------------------------------------------------------------

\* The chunks the peer sends in Data packets: "" (end of content), "x", "y".
PeerChunks == { <<>>, <<120>>, <<121>> }

\* The identifiers the peer names in Data packets.
PeerIds == 0..2

\* A lookup that finds a sink under every identifier.
HasSink_Always(ps, id) == TRUE

\* pw, ok := r.pipes[p.ID]: ok
HasSink(ps, id) == id \in DOMAIN ps

\* A lookup that yields the sink of the smallest registered identifier.
SinkFor_First(ps, id) ==
    IF DOMAIN ps = {} THEN 0
    ELSE ps[CHOOSE j \in DOMAIN ps : \A l \in DOMAIN ps : j <= l]

\* pw, ok := r.pipes[p.ID]: pw, the sink registered for the identifier
\* (0, the nil sink, when there is none).
SinkFor(ps, id) == IF id \in DOMAIN ps THEN ps[id] ELSE 0

\* A sink that drops what it is given.
SinkWrite_Drop(ops, data) == ops

\* pw.Write(p.Data) on the underlying sink.
SinkWrite(ops, data) == Append(ops, [op |-> "write", data |-> data])

\* A Close that closes the done channel only when the sink's Close succeeded.
WrappedClose_NoSignal(c, ok) ==
    [c EXCEPT !.ops = Append(@, [op |-> "close", data |-> <<>>]),
              !.werr = ~ok, !.done = ok]

\* wrappedWriteCloser.Close: the underlying sink is closed, its result kept
\* in w.err, and the done channel closed.
WrappedClose(c, ok) ==
    [c EXCEPT !.ops = Append(@, [op |-> "close", data |-> <<>>]),
              !.werr = ~ok, !.done = TRUE]

\* The error the handler of a Data packet returns when the sink fails: that
\* of pw.Close() for a zero-length chunk, else that of pw.Write(p.Data).
SinkError(data) == IF data = <<>> THEN "close error" ELSE "write error"

\* A Data packet is received.  ok is the result of the sink's Write or Close.
RecvData(id, data, ok) ==
    LET k == SinkFor(pipes, id) IN
    /\ pc = "recv"
    /\ recvd' = Append(recvd, [type |-> "DATA", id |-> id, data |-> data])
    /\ IF ~HasSink(pipes, id)
       THEN /\ pc' = "err" /\ err' = "invalid file request"
            /\ UNCHANGED calls
       ELSE IF k = 0
       THEN /\ pc' = "panic" /\ err' = "nil sink"
            /\ UNCHANGED calls
       ELSE /\ calls' =
                 IF data = <<>>
                 THEN [calls EXCEPT ![k] = WrappedClose(@, ok)]
                 ELSE [calls EXCEPT ![k].ops = SinkWrite(@, data)]
            /\ IF ok THEN UNCHANGED << pc, err >>
               ELSE pc' = "err" /\ err' = SinkError(data)
    /\ ctxDone' = (ctxDone \/ pc' = "err")
    /\ gerr' = FirstErr(gerr, pc' = "err", "dispatch")
    /\ UNCHANGED << sep, metadataTransfer, i, files, pipes, orderLast, hlSeen,
                    metadataParents, metadataBuffer, walkChan, walkClosed,
                    closeCh, errArg, otherTasks >>

\* What a packet that is not a Stat or a Data leaves alone.
dispatchState ==
    << sep, metadataTransfer, i, files, pipes, orderLast, hlSeen,
       metadataParents, metadataBuffer, walkChan, walkClosed, closeCh, calls,
       otherTasks >>

\* The texts the peer sends in ERR packets: "e" and "f".
PeerErrTexts == { <<101>>, <<102>> }

\* An ERR packet that is received and ignored.
RecvErr_Ignored(text) ==
    /\ pc = "recv"
    /\ recvd' = Append(recvd, [type |-> "ERR", data |-> text])
    /\ UNCHANGED << pc, err, errArg, ctxDone, gerr >>
    /\ UNCHANGED dispatchState

\* An ERR packet is received: errors.Errorf("error from sender: %s", p.Data).
RecvErr(text) ==
    /\ pc = "recv"
    /\ recvd' = Append(recvd, [type |-> "ERR", data |-> text])
    /\ pc' = "err" /\ err' = "error from sender" /\ errArg' = text
    /\ ctxDone' = TRUE
    /\ gerr' = FirstErr(gerr, TRUE, "dispatch")
    /\ UNCHANGED dispatchState

\* A REQ packet is received: the switch has no case for it.
RecvReq ==
    /\ pc = "recv"
    /\ recvd' = Append(recvd, [type |-> "REQ"])
    /\ UNCHANGED << pc, err, errArg, ctxDone, gerr >>
    /\ UNCHANGED dispatchState

\* A FIN packet is received: the task goes on to drain the stream.
RecvFin ==
    /\ pc = "recv"
    /\ recvd' = Append(recvd, [type |-> "FIN"])
    /\ pc' = "drain"
    /\ UNCHANGED << err, errArg, ctxDone, gerr >>
    /\ UNCHANGED dispatchState

\* r.conn.RecvMsg fails in the main loop (end of stream included).
RecvFails ==
    /\ pc = "recv"
    /\ recvd' = Append(recvd, [type |-> "RECVERR"])
    /\ pc' = "err" /\ err' = "receive error"
    /\ ctxDone' = TRUE
    /\ gerr' = FirstErr(gerr, TRUE, "dispatch")
    /\ UNCHANGED errArg
    /\ UNCHANGED dispatchState

\* The types of the packets of the protocol.
PacketTypes == {"STAT", "DATA", "REQ", "ERR", "FIN"}

\* After FIN a packet, of type t, is received and discarded.
DrainRecv(t) ==
    /\ pc = "drain"
    /\ recvd' = Append(recvd, [type |-> "DRAINED", was |-> t])
    /\ UNCHANGED << pc, err, errArg, ctxDone, gerr >>
    /\ UNCHANGED dispatchState

\* A drain loop that ends with success on every receive error.
DrainResult_Success(eof) == "ok"

\* if err == io.EOF { return nil }; return err
DrainResult(eof) == IF eof THEN "ok" ELSE "err"

\* After FIN r.conn.RecvMsg fails: io.EOF ends the task with success, any
\* other error is returned.
DrainEnds(eof) ==
    /\ pc = "drain"
    /\ recvd' = Append(recvd, [type |-> "RECVERR", eof |-> eof])
    /\ pc' = DrainResult(eof)
    /\ IF pc' = "ok" THEN UNCHANGED << err, ctxDone >>
       ELSE err' = "receive error" /\ ctxDone' = TRUE
    /\ gerr' = FirstErr(gerr, pc' = "err", "dispatch")
    /\ UNCHANGED errArg
    /\ UNCHANGED dispatchState

\* ------------------------------------------------------------------
\* The diff/walk task and the disk writer
\* ------------------------------------------------------------------

\* A panic of the packet-dispatch task ends the process.
Alive == pc # "panic"

\* What the diff/walk task and the content pull leave alone.
statState ==
    << sep, metadataTransfer, pc, err, errArg, i, orderLast, hlSeen,
       metadataParents, metadataBuffer, walkChan, walkClosed, recvd, ret,
       dest, source, lk, mountVars >>

\* A receive that takes the entry sent last.
FeedNext_Last(ch, d) == ch[Len(ch)]

\* p, ok := <-w.walkChan: the oldest entry of the channel that was not
\* received yet, d entries having been received.
FeedNext(ch, d) == ch[d + 1]

\* dynamicWalker.fill passes the next entry on; the disk writer handles it
\* and either starts a content pull for it (need) or does not.
WalkDeliver(need) ==
    /\ Alive /\ wpc = "fill"
    /\ delivered < Len(walkChan)
    /\ delivered' = delivered + 1
    /\ calls' = Append(calls, [pc   |-> IF need THEN "start" ELSE "skip",
                              entry |-> FeedNext(walkChan, delivered),
                              id   |-> 0,
                              found |-> FALSE,
                              ops  |-> <<>>,
                              done |-> FALSE,
                              werr |-> FALSE,
                              cerr |-> "none"])
    /\ UNCHANGED << files, pipes, closeCh, ctxDone, wpc, sent, gerr >>
    /\ UNCHANGED statState

\* A fill that returns before the feed is closed.
WalkEnds_Early ==
    /\ Alive /\ wpc = "fill"
    /\ delivered = Len(walkChan)
    /\ wpc' = "wait"
    /\ UNCHANGED << files, pipes, closeCh, ctxDone, delivered, calls, sent,
                    gerr >>
    /\ UNCHANGED statState

\* dynamicWalker.fill finds the feed closed and drained: the walk is over
\* and the task waits for the disk writer (dw.Wait).
WalkEnds ==
    /\ Alive /\ wpc = "fill"
    /\ walkClosed /\ delivered = Len(walkChan)
    /\ wpc' = "wait"
    /\ UNCHANGED << files, pipes, closeCh, ctxDone, delivered, calls, sent,
                    gerr >>
    /\ UNCHANGED statState

\* The packet the diff/walk task sends when it returns.
TaskPacket(t) == [type |-> t, id |-> 0, call |-> 0]

\* A task that sends FIN before it notices it failed, and then ERR.
TerminalPackets_Both(failed) ==
    IF failed THEN << TaskPacket("FIN"), TaskPacket("ERR") >>
    ELSE << TaskPacket("FIN") >>

\* What the diff/walk task sends when it returns: ERR from the deferred
\* function when it returns an error (lines 180-184), FIN just before it
\* returns nil (line 196).
TerminalPackets(failed) ==
    IF failed THEN << TaskPacket("ERR") >> ELSE << TaskPacket("FIN") >>

\* dynamicWalker.fill finds the context cancelled: it closes closeCh, and
\* the task returns the error after sending an ERR packet.
WalkCancelled ==
    /\ Alive /\ wpc = "fill"
    /\ ctxDone
    /\ closeCh' = TRUE
    /\ wpc' = "err"
    /\ sent' = sent \o TerminalPackets(TRUE)
    /\ gerr' = FirstErr(gerr, TRUE, "walk")
    /\ UNCHANGED << files, pipes, ctxDone, delivered, calls >>
    /\ UNCHANGED statState

\* The content pulls the disk writer started have all returned.
PullsReturned ==
    \A k \in 1..Len(calls) : calls[k].pc \in {"skip", "done", "fail"}

\* dw.Wait returns: with an error when a content pull failed or the context
\* is cancelled (an ERR packet is sent), else FIN is sent.
WalkWaitReturns ==
    /\ Alive /\ wpc = "wait"
    /\ ctxDone \/ PullsReturned
    /\ IF ctxDone \/ \E k \in 1..Len(calls) : calls[k].pc = "fail"
       THEN /\ wpc' = "err"
            /\ sent' = sent \o TerminalPackets(TRUE)
            /\ ctxDone' = TRUE
       ELSE /\ wpc' = "ok"
            /\ sent' = sent \o TerminalPackets(FALSE)
            /\ UNCHANGED ctxDone
    /\ gerr' = FirstErr(gerr, wpc' = "err", "walk")
    /\ UNCHANGED << files, pipes, closeCh, delivered, calls >>
    /\ UNCHANGED statState

\* The caller of Receive cancels the context.
Cancel ==
    /\ Alive /\ ~ctxDone /\ ret = "running"
    /\ ctxDone' = TRUE
    /\ UNCHANGED << files, pipes, closeCh, wpc, delivered, calls, sent, gerr >>
    /\ UNCHANGED statState

\* ------------------------------------------------------------------
\* asyncDataFunc, one call per entry the disk writer needs the content of
\* ------------------------------------------------------------------

\* The path call k is made for.
CallPath(k) == walkChan[k].path

\* delete(r.files, p)
FilesWithout(fs, p) == [q \in DOMAIN fs \ {p} |-> fs[q]]

\* A registration that leaves the table as it is.
PipesWith_Nothing(ps, id, k) == ps

\* r.pipes[id] = wwc
PipesWith(ps, id, k) == [j \in DOMAIN ps \cup {id} |-> IF j = id THEN k ELSE ps[j]]

\* A delete that leaves the table as it is.
PipesWithout_Keep(ps, id) == ps

\* delete(r.pipes, id)
PipesWithout(ps, id) == [j \in DOMAIN ps \ {id} |-> ps[j]]

\* What the content pull leaves alone, besides statState.
pullFrame == << closeCh, ctxDone, wpc, delivered, gerr >>

\* A lookup that finds identifier 0 for a path that has none.
Pending_Any(fs, p) == TRUE

\* id, ok := r.files[p]: ok
Pending(fs, p) == p \in DOMAIN fs

\* id, ok := r.files[p]: id (the zero value when there is none)
PendingId(fs, p) == IF p \in DOMAIN fs THEN fs[p] ELSE 0

\* Lines 351-358: the identifier is looked up and removed from r.files, or
\* the call fails with "invalid file request".
AsyncLookup(k) ==
    /\ Alive /\ calls[k].pc = "start"
    /\ IF Pending(files, CallPath(k))
       THEN /\ calls' = [calls EXCEPT ![k].pc = "found",
                                      ![k].found = TRUE,
                                      ![k].id = PendingId(files, CallPath(k))]
            /\ files' = FilesWithout(files, CallPath(k))
       ELSE /\ calls' = [calls EXCEPT ![k].pc = "fail",
                                      ![k].cerr = "invalid file request"]
            /\ UNCHANGED files
    /\ UNCHANGED << pipes, sent >>
    /\ UNCHANGED pullFrame
    /\ UNCHANGED statState

\* Lines 360-363: the wrapped sink is registered in r.pipes.
AsyncRegister(k) ==
    /\ Alive /\ calls[k].pc = "found"
    /\ pipes' = PipesWith(pipes, calls[k].id, k)
    /\ calls' = [calls EXCEPT ![k].pc = "registered"]
    /\ UNCHANGED << files, sent >>
    /\ UNCHANGED pullFrame
    /\ UNCHANGED statState

\* Lines 364-366: the REQ is sent, or the send fails and the call returns.
AsyncSend(k, ok) ==
    /\ Alive /\ calls[k].pc = "registered"
    /\ IF ok
       THEN /\ sent' = Append(sent, [type |-> "REQ", id |-> calls[k].id,
                                     call |-> k])
            /\ calls' = [calls EXCEPT ![k].pc = "waiting"]
       ELSE /\ calls' = [calls EXCEPT ![k].pc = "fail",
                                      ![k].cerr = "send error"]
            /\ UNCHANGED sent
    /\ UNCHANGED << files, pipes >>
    /\ UNCHANGED pullFrame
    /\ UNCHANGED statState

\* A Wait that returns nil whatever the close returned.
CloseResult_Nil(werr) == "none"

\* case <-w.done: return w.err
CloseResult(werr) == IF werr THEN "close error" ELSE "none"

\* Lines 367-370, wrappedWriteCloser.Wait: the sink was closed (the call
\* goes on when the close succeeded, and returns its error otherwise).
AsyncWaitDone(k) ==
    /\ Alive /\ calls[k].pc = "waiting"
    /\ calls[k].done
    /\ calls' = [calls EXCEPT
                   ![k].cerr = CloseResult(calls[k].werr),
                   ![k].pc = IF CloseResult(calls[k].werr) = "none"
                             THEN "closed" ELSE "fail"]
    /\ UNCHANGED << files, pipes, sent >>
    /\ UNCHANGED pullFrame
    /\ UNCHANGED statState

\* Lines 367-370, wrappedWriteCloser.Wait: the context was cancelled.
AsyncWaitCancelled(k) ==
    /\ Alive /\ calls[k].pc = "waiting"
    /\ ctxDone
    /\ calls' = [calls EXCEPT ![k].pc = "fail",
                              ![k].cerr = "context canceled"]
    /\ UNCHANGED << files, pipes, sent >>
    /\ UNCHANGED pullFrame
    /\ UNCHANGED statState

\* Lines 371-374: the sink is removed from r.pipes and the call returns nil.
AsyncFinish(k) ==
    /\ Alive /\ calls[k].pc = "closed"
    /\ pipes' = PipesWithout(pipes, calls[k].id)
    /\ calls' = [calls EXCEPT ![k].pc = "done"]
    /\ UNCHANGED << files, sent >>
    /\ UNCHANGED pullFrame
    /\ UNCHANGED statState

\* The steps of the content pulls.
Pulls ==
    \E k \in 1..Len(calls) :
        \/ AsyncLookup(k)
        \/ AsyncRegister(k)
        \/ \E ok \in BOOLEAN : AsyncSend(k, ok)
        \/ AsyncWaitDone(k)
        \/ AsyncWaitCancelled(k)
        \/ AsyncFinish(k)

\* ------------------------------------------------------------------
\* Specification of a transfer: both tasks, the content pulls, and a peer
\* that sends any packet
\* ------------------------------------------------------------------

\* The Stats the peer sends in this specification: "a" and "b", each a
\* directory or a regular file.
TransferStats ==
    {DirStat(<<97>>), RegStat(<<97>>), RegStat(<<98>>)}

Init ==
    /\ sep = Slash
    /\ metadataTransfer = FALSE
    /\ dest = NoEntry
    /\ source = NoSource /\ lk = NoLocks
    /\ InitReceiver
    /\ InitMounts

\* The peer may send another packet.
MayRecv == Len(recvd) < MaxPackets

Next ==
    \/ \E st \in TransferStats : MayRecv /\ RecvStat(st, TRUE)
    \/ MayRecv /\ RecvStatEOF
    \/ \E id \in PeerIds, data \in PeerChunks, ok \in BOOLEAN :
          MayRecv /\ RecvData(id, data, ok)
    \/ \E text \in PeerErrTexts : MayRecv /\ RecvErr(text)
    \/ MayRecv /\ RecvReq
    \/ MayRecv /\ RecvFin
    \/ MayRecv /\ RecvFails
    \/ \E t \in PacketTypes : MayRecv /\ DrainRecv(t)
    \/ \E eof \in BOOLEAN : MayRecv /\ DrainEnds(eof)
    \/ \E need \in BOOLEAN : WalkDeliver(need)
    \/ WalkEnds
    \/ WalkCancelled
    \/ WalkWaitReturns
    \/ Cancel
    \/ Pulls

Spec == Init /\ [][Next]_vars

\* ------------------------------------------------------------------
\* The return of Receive
\* ------------------------------------------------------------------

\* The entry after os.Remove, os.OpenFile(O_WRONLY|O_CREATE|O_TRUNC) and
\* metadataBuffer.WriteTo, each of which may fail: os.Remove's result is
\* ignored, a failed open leaves what os.Remove left, a failed write leaves
\* an incomplete file.
DestAfter(d, buf, removeOk, openOk, writeOk) ==
    LET removed == IF removeOk THEN NoEntry ELSE d
    IN  IF ~openOk THEN removed
        ELSE IF ~writeOk THEN [kind |-> "partial", log |-> <<>>]
        ELSE [kind |-> "log", log |-> buf]

\* The error run returns after the tasks succeeded in a metadata-only
\* transfer.
PersistResult(openOk, writeOk, closeOk) ==
    IF ~openOk THEN "open error"
    ELSE IF ~writeOk THEN "write error"
    ELSE IF ~closeOk THEN "close error"
    ELSE "nil"

\* A run that returns the error of the diff/walk task whichever task
\* failed first.
AfterWait_Walk(g, meta) ==
    IF g # "none" THEN "walk"
    ELSE IF ~meta THEN "nil"
    ELSE "persist"

\* A run that persists the log even when a task failed.
AfterWait_Persist(g, meta) == IF meta THEN "persist" ELSE "nil"

\* Lines 328-334: what run does once g.Wait has returned error g: it
\* returns the error, returns nil, or goes on to persist the metadata log.
AfterWait(g, meta) ==
    IF g # "none" THEN g
    ELSE IF ~meta THEN "nil"
    ELSE "persist"

\* Both tasks have returned; g.Wait returns, run returns and Receive's
\* deferred cancel runs.
RunReturns(removeOk, openOk, writeOk, closeOk) ==
    /\ ret = "running"
    /\ pc \in {"ok", "err"} /\ wpc \in {"ok", "err"}
    /\ IF AfterWait(gerr, metadataTransfer) = "persist"
       THEN /\ dest' = DestAfter(dest, metadataBuffer, removeOk, openOk, writeOk)
            /\ ret' = PersistResult(openOk, writeOk, closeOk)
       ELSE /\ ret' = AfterWait(gerr, metadataTransfer)
            /\ UNCHANGED dest
    /\ ctxDone' = TRUE
    /\ UNCHANGED << sep, metadataTransfer, pc, err, errArg, i, files, pipes,
                    orderLast, hlSeen, metadataParents, metadataBuffer,
                    walkChan, walkClosed, closeCh, recvd, wpc, delivered,
                    calls, sent, gerr, source, lk, mountVars >>

\* ------------------------------------------------------------------
\* Specification of a whole run of Receive, with or without a metadata-only
\* filter, up to its return
\* ------------------------------------------------------------------

\* Packets the peer sends in one run (SpecRun).
MaxRunPackets == 4

\* The Stat the peer sends in this specification: the regular file "a".
RunStats == {RegStat(<<97>>)}

\* The identifier and the chunks of the Data packets of this specification.
RunIds == {0}

RunChunks == { <<>>, <<120>> }

InitRun ==
    /\ sep = Slash
    /\ metadataTransfer \in BOOLEAN
    /\ dest \in {NoEntry, OldEntry}
    /\ source = NoSource /\ lk = NoLocks
    /\ InitReceiver
    /\ InitMounts

\* The peer may send another packet.
MayRecvRun == Len(recvd) < MaxRunPackets

NextRun ==
    \/ \E st \in RunStats, keep \in BOOLEAN : MayRecvRun /\ RecvStat(st, keep)
    \/ MayRecvRun /\ RecvStatEOF
    \/ \E id \in RunIds, data \in RunChunks, ok \in BOOLEAN :
          MayRecvRun /\ RecvData(id, data, ok)
    \/ \E text \in PeerErrTexts : MayRecvRun /\ RecvErr(text)
    \/ MayRecvRun /\ RecvReq
    \/ MayRecvRun /\ RecvFin
    \/ MayRecvRun /\ RecvFails
    \/ \E t \in PacketTypes : MayRecvRun /\ DrainRecv(t)
    \/ \E eof \in BOOLEAN : MayRecvRun /\ DrainEnds(eof)
    \/ \E need \in BOOLEAN : WalkDeliver(need)
    \/ WalkEnds
    \/ WalkCancelled
    \/ WalkWaitReturns
    \/ Cancel
    \/ Pulls
    \/ \E removeOk, openOk, writeOk, closeOk \in BOOLEAN :
          RunReturns(removeOk, openOk, writeOk, closeOk)

SpecRun == InitRun /\ [][NextRun]_vars

\* The steps the receiver takes by itself: those of the diff/walk task, of
\* the content pulls and of the return of Receive.  The steps of the
\* packet-dispatch task need r.conn.RecvMsg to return, which is up to the
\* peer and the stream.
ReceiverSteps ==
    \/ \E need \in BOOLEAN : WalkDeliver(need)
    \/ WalkEnds
    \/ WalkCancelled
    \/ WalkWaitReturns
    \/ Pulls
    \/ \E removeOk, openOk, writeOk, closeOk \in BOOLEAN :
          RunReturns(removeOk, openOk, writeOk, closeOk)

\* A run in which the receiver's own goroutines are scheduled.
SpecRunFair == SpecRun /\ WF_vars(ReceiverSteps)

\* ------------------------------------------------------------------
\* Specification of a transfer from a well-behaved sender: diff = none, no
\* metadata-only filter, an empty destination
\* ------------------------------------------------------------------

\* The longest content of a file of the source tree.
MaxFileLen == 2

\* The contents a file of the source tree may have: "", "x", "xy", ...
FileContents ==
    { [k \in 1..n |-> IF k % 2 = 1 THEN 120 ELSE 121] : n \in 0..MaxFileLen }

\* An entry of the source tree: its Stat and, for a regular file, its bytes.
SourceEntry(st, data) == [stat |-> st, data |-> data]

\* The source trees, each in walk order: of the directory "a", the file
\* "a/a" inside it and the file "b", with every content of one file (in
\* the tree of three entries the content of "b" is "y").
SourceTrees ==
    LET a  == SourceEntry(DirStat(<<97>>), <<>>)
        aa(d) == SourceEntry(RegStat(<<97, 47, 97>>), d)
        b(d)  == SourceEntry(RegStat(<<98>>), d)
    IN  { <<>>, <<a>> }
        \cup { <<b(d)>> : d \in FileContents }
        \cup { <<a, aa(d)>> : d \in FileContents }
        \cup { <<a, b(d)>> : d \in FileContents }
        \cup { <<a, aa(d), b(<<121>>)>> : d \in FileContents }

\* The sender has sent the empty Stat.
EOFSent == \E j \in 1..Len(recvd) : recvd[j].type = "EOF"

\* The receiver has requested the content of identifier id.
Requested(id) ==
    \E j \in 1..Len(sent) : sent[j].type = "REQ" /\ sent[j].id = id

\* The bytes of the first n packets that are Data packets for id.
RECURSIVE StreamedUpTo(_, _)
StreamedUpTo(id, n) ==
    IF n = 0 THEN <<>>
    ELSE IF recvd[n].type = "DATA" /\ recvd[n].id = id
         THEN StreamedUpTo(id, n - 1) \o recvd[n].data
         ELSE StreamedUpTo(id, n - 1)

\* The sender has ended the stream of id with an empty chunk.
Terminated(id) ==
    \E j \in 1..Len(recvd) :
        recvd[j].type = "DATA" /\ recvd[j].id = id /\ recvd[j].data = <<>>

\* The chunks the sender may send next for id: any non-empty piece of what
\* remains of the file, or the empty chunk when nothing remains.
NextChunks(id) ==
    LET data == source[id + 1].data
        from == Len(StreamedUpTo(id, Len(recvd))) + 1
    IN  IF from > Len(data) THEN { <<>> }
        ELSE { SubSeq(data, from, to) : to \in from..Len(data) }

\* The sender sends the Stat of its next entry.
SendStat ==
    /\ NumStats < Len(source)
    /\ RecvStat(source[NumStats + 1].stat, TRUE)

\* The walk of the sender is over: it sends the empty Stat.
SendEOF ==
    /\ NumStats = Len(source)
    /\ RecvStatEOF

\* The sender streams the next chunk of a file the receiver requested.
SendData(id, ok) ==
    /\ id + 1 <= Len(source)
    /\ Requested(id) /\ ~Terminated(id)
    /\ \E data \in NextChunks(id) : RecvData(id, data, ok)

\* Metadata is exhausted and every requested stream has completed: the
\* sender sends FIN.
SendFin ==
    /\ EOFSent
    /\ \A id \in 0..Len(source) : Requested(id) => Terminated(id)
    /\ RecvFin

\* The sender has finished and closes the stream.
SendClose == DrainEnds(TRUE)

\* The disk writer of an empty destination: it pulls the content of every
\* regular file it is given.
TripDeliver ==
    /\ delivered < Len(walkChan)
    /\ WalkDeliver(fileCanRequestData(walkChan[delivered + 1].mode))

InitTrip ==
    /\ sep = Slash
    /\ metadataTransfer = FALSE
    /\ dest = NoEntry
    /\ source \in SourceTrees
    /\ lk = NoLocks
    /\ InitReceiver
    /\ InitMounts

NextTrip ==
    \/ SendStat
    \/ SendEOF
    \/ \E id \in 0..2, ok \in BOOLEAN : SendData(id, ok)
    \/ SendFin
    \/ SendClose
    \/ TripDeliver
    \/ WalkEnds
    \/ WalkCancelled
    \/ WalkWaitReturns
    \/ Pulls
    \/ \E removeOk, openOk, writeOk, closeOk \in BOOLEAN :
          RunReturns(removeOk, openOk, writeOk, closeOk)

SpecTrip == InitTrip /\ [][NextTrip]_vars

\* ------------------------------------------------------------------
\* Specification of the locking of the two tables, line by line: the
\* packet-dispatch task (task 0) and the asyncDataFunc calls (tasks 1, 2, ...)
\* ------------------------------------------------------------------

\* The asyncDataFunc calls that run concurrently.
MaxPulls == 2

LockTasks == 0..MaxPulls

\* The line a task is at when it is at none of the lines below: the
\* dispatch task between two packets, a call before it starts.
Outside == [t \in LockTasks |-> IF t = 0 THEN 210 ELSE 350]

\* The mutex a line locks ("none" when it locks none).
LockOf(line) ==
    IF line \in {257, 351} THEN "mu"
    ELSE IF line \in {299, 361, 371} THEN "muPipes"
    ELSE "none"

\* The mutex a line unlocks.
UnlockOf(line) ==
    IF line \in {259, 354, 358} THEN "mu"
    ELSE IF line \in {301, 363, 373} THEN "muPipes"
    ELSE "none"

\* The table a line reads or writes: r.files or r.pipes.
TableOf(line) ==
    IF line \in {258, 352, 357} THEN "files"
    ELSE IF line \in {300, 362, 372} THEN "pipes"
    ELSE "none"

\* The lines control may reach next: in the dispatch task a Stat of an
\* entry that can carry content (257) or a Data packet (299); in
\* asyncDataFunc the failed lookup (354), the failed send or wait (375,
\* the return) and the straight line.
NextLines(line) ==
    CASE line = 210 -> {257, 299}
      [] line = 257 -> {258}
      [] line = 258 -> {259}
      [] line = 259 -> {210}
      [] line = 299 -> {300}
      [] line = 300 -> {301}
      [] line = 301 -> {210}
      [] line = 350 -> {351}
      [] line = 351 -> {352}
      [] line = 352 -> {354, 357}
      [] line = 354 -> {375}
      [] line = 357 -> {358}
      [] line = 358 -> {361}
      [] line = 361 -> {362}
      [] line = 362 -> {363}
      [] line = 363 -> {364}
      [] line = 364 -> {371, 375}
      [] line = 371 -> {372}
      [] line = 372 -> {373}
      [] line = 373 -> {375}
      [] OTHER -> {}

\* A Lock that returns without taking the mutex.
Acquire_Skip(holders, t) == holders

\* sync.RWMutex.Lock, once the mutex is free: the task holds it.
Acquire(holders, t) == holders \cup {t}

\* sync.RWMutex.Unlock
Release(holders, t) == holders \ {t}

\* What the steps of the locking leave alone.
lockFrame ==
    << sep, metadataTransfer, pc, err, i, files, pipes, orderLast, hlSeen,
       metadataParents, metadataBuffer, walkChan, walkClosed, closeCh, recvd,
       ctxDone, wpc, delivered, calls, sent, errArg, gerr, ret, dest,
       source, mountVars >>

\* Task t executes the line it is at and moves to line next.
LineStep(t, next) ==
    LET line == lk.at[t] IN
    /\ next \in NextLines(line)
    /\ LockOf(line) = "mu" => lk.mu = {}
    /\ LockOf(line) = "muPipes" => lk.muPipes = {}
    /\ lk' = [mu |-> IF LockOf(line) = "mu" THEN Acquire(lk.mu, t)
                      ELSE IF UnlockOf(line) = "mu" THEN Release(lk.mu, t)
                      ELSE lk.mu,
              muPipes |-> IF LockOf(line) = "muPipes" THEN Acquire(lk.muPipes, t)
                          ELSE IF UnlockOf(line) = "muPipes"
                          THEN Release(lk.muPipes, t)
                          ELSE lk.muPipes,
              at |-> [lk.at EXCEPT ![t] = next]]
    /\ UNCHANGED lockFrame

\* A step of the packet-dispatch task.
DispatchLine == \E next \in 200..326 : LineStep(0, next)

\* A step of an asyncDataFunc call.
PullLine == \E t \in 1..MaxPulls, next \in 350..375 : LineStep(t, next)

InitLock ==
    /\ sep = Slash
    /\ metadataTransfer = FALSE
    /\ dest = NoEntry
    /\ source = NoSource
    /\ lk = [mu |-> {}, muPipes |-> {}, at |-> Outside]
    /\ InitReceiver
    /\ InitMounts

NextLock == DispatchLine \/ PullLine

SpecLock == InitLock /\ [][NextLock]_vars

\* ------------------------------------------------------------------
\* The mounts package: getRefCacheDir, the shares and their clones
\* ------------------------------------------------------------------

\* getRefCacheDir calls in one run (SpecMount).
MaxGets == 3

\* pb.CacheSharingOpt
SharingOpts == {"SHARED", "PRIVATE", "LOCKED"}

\* What one pass over the refs SearchCacheDir found ends with: the search
\* failed, cm.GetMutable returned one of them, none could be taken and one
\* was locked, none could be taken and none was locked.
ScanOutcomes == {"searcherr", "reuse", "locked", "none"}

\* What the transfer leaves to the mounts package.
receiverVars ==
    << sep, metadataTransfer, pc, err, i, files, pipes, orderLast, hlSeen,
       metadataParents, metadataBuffer, walkChan, walkClosed, closeCh, recvd,
       ctxDone, wpc, delivered, calls, sent, errArg, gerr, ret, dest,
       source, lk >>

\* The MutableRef a share embeds: a mutable ref of the cache manager or a
\* cacheRef, the clone of a process-wide share.
Wraps(kind, id) == [kind |-> kind, id |-> id]

\* &cacheRefShare{MutableRef: w, main: .., key: .., refs: {}} and its first
\* clone h.
NewShare(w, main, k, h) ==
    [wraps |-> w, refs |-> {h}, main |-> main, key |-> k, mu |-> {}]

\* &cacheRef{cacheRefShare: s}; user: it is returned by getRefCacheDir.
NewHandle(s, user) ==
    [share |-> s, user |-> user, released |-> 0, dropped |-> FALSE]

\* A mutable ref getRefCacheDirNoCache returns: made by cm.New or taken
\* with cm.GetMutable.
NewMutableRef(k, made) == [key |-> k, made |-> made, released |-> 0]

\* The mutable ref at the bottom of handle h.
BackingRef(h) ==
    LET w == refShares[refHandles[h].share].wraps
    IN  IF w.kind = "mref" THEN w.id
        ELSE refShares[refHandles[w.id].share].wraps.id

\* Release was called on something handle h stands on: on the mutable ref
\* at its bottom or on the clone of the process-wide share in between.
BackingReleased(h) ==
    LET w == refShares[refHandles[h].share].wraps
    IN  \/ mutableRefs[BackingRef(h)].released > 0
        \/ w.kind = "cacheRef" /\ refHandles[w.id].released > 0

\* Goroutine p is back from a call that returned res.
Returned(res) == [IdleProc EXCEPT !.res = res]

\* Goroutine p starts getRefCacheDir on manager m.
StartGet(p, m, k, sharing) ==
    /\ proc[p].pc = "idle"
    /\ gets < MaxGets
    /\ gets' = gets + 1
    /\ proc' = [proc EXCEPT ![p] =
                  [IdleProc EXCEPT !.pc = "lock", !.m = m, !.key = k,
                                   !.sharing = sharing]]
    /\ UNCHANGED << cacheMountsMu, cacheMounts, sharesMu, shares,
                    cacheRefsLocker, refShares, refHandles, mutableRefs >>
    /\ UNCHANGED receiverVars

\* Lines 77-78, 81 and 91-103: mu.Lock(); under the mutex the share of the
\* manager is looked up, and without one the sharing mode chooses the way.
GetLock(p) ==
    /\ proc[p].pc = "lock"
    /\ cacheMountsMu[proc[p].m] = {}
    /\ cacheMountsMu' = [cacheMountsMu EXCEPT ![proc[p].m] = {p}]
    /\ proc' = [proc EXCEPT ![p].pc =
                  IF cacheMounts[proc[p].m][proc[p].key] # 0 THEN "clone"
                  ELSE IF proc[p].sharing = "SHARED" THEN "glock"
                  ELSE "klock"]
    /\ UNCHANGED << cacheMounts, sharesMu, shares, cacheRefsLocker, refShares,
                    refHandles, mutableRefs, gets >>
    /\ UNCHANGED receiverVars

\* Line 82: return ref.clone(ctx), nil (clone, lines 480-493, takes the
\* share's mutex); the deferred mu.Unlock() runs.
GetClone(p) ==
    LET s == cacheMounts[proc[p].m][proc[p].key]
        h == Len(refHandles) + 1
    IN
    /\ proc[p].pc = "clone"
    /\ refShares[s].mu = {}
    /\ refShares' = [refShares EXCEPT ![s].refs = @ \cup {h}]
    /\ refHandles' = Append(refHandles, NewHandle(s, TRUE))
    /\ cacheMountsMu' = [cacheMountsMu EXCEPT ![proc[p].m] = @ \ {p}]
    /\ proc' = [proc EXCEPT ![p] = Returned("ok")]
    /\ UNCHANGED << cacheMounts, sharesMu, shares, cacheRefsLocker,
                    mutableRefs, gets >>
    /\ UNCHANGED receiverVars

\* Lines 450-451, cacheRefs.get: r.mu.Lock(); then the lookup of line 457.
GetGlobalLock(p) ==
    /\ proc[p].pc = "glock"
    /\ sharesMu = {}
    /\ sharesMu' = {p}
    /\ proc' = [proc EXCEPT ![p].pc =
                  IF shares[proc[p].key] # 0 THEN "gclone" ELSE "klock"]
    /\ UNCHANGED << cacheMountsMu, cacheMounts, shares, cacheRefsLocker,
                    refShares, refHandles, mutableRefs, gets >>
    /\ UNCHANGED receiverVars

\* Lines 458-460: the process-wide share is cloned; then lines 84-90, the
\* deferred function of getRefCacheDir, embed the clone in a new share of
\* the manager and return a clone of that.
GetGlobalClone(p) ==
    LET sg == shares[proc[p].key]
        hg == Len(refHandles) + 1
        sm == Len(refShares) + 1
        hu == Len(refHandles) + 2
    IN
    /\ proc[p].pc = "gclone"
    /\ refShares[sg].mu = {}
    /\ refShares' =
          Append([refShares EXCEPT ![sg].refs = @ \cup {hg}],
                 NewShare(Wraps("cacheRef", hg), FALSE, proc[p].key, hu))
    /\ refHandles' = refHandles \o << NewHandle(sg, FALSE), NewHandle(sm, TRUE) >>
    /\ cacheMounts' = [cacheMounts EXCEPT ![proc[p].m][proc[p].key] = sm]
    /\ sharesMu' = sharesMu \ {p}
    /\ cacheMountsMu' = [cacheMountsMu EXCEPT ![proc[p].m] = @ \ {p}]
    /\ proc' = [proc EXCEPT ![p] = Returned("ok")]
    /\ UNCHANGED << shares, cacheRefsLocker, mutableRefs, gets >>
    /\ UNCHANGED receiverVars

\* Line 116: cacheRefsLocker.Lock(key)
KeyLock(p) ==
    /\ proc[p].pc = "klock"
    /\ cacheRefsLocker[proc[p].key] = {}
    /\ cacheRefsLocker' = [cacheRefsLocker EXCEPT ![proc[p].key] = {p}]
    /\ proc' = [proc EXCEPT ![p].pc = "scan"]
    /\ UNCHANGED << cacheMountsMu, cacheMounts, sharesMu, shares, refShares,
                    refHandles, mutableRefs, gets >>
    /\ UNCHANGED receiverVars

\* getRefCacheDir returns an error: every lock the call holds is unlocked
\* by the deferred calls, and nothing is stored.
GetFails(p, res, refs) ==
    /\ mutableRefs' = refs
    /\ cacheRefsLocker' = [cacheRefsLocker EXCEPT ![proc[p].key] = @ \ {p}]
    /\ sharesMu' = sharesMu \ {p}
    /\ cacheMountsMu' = [cacheMountsMu EXCEPT ![proc[p].m] = @ \ {p}]
    /\ proc' = [proc EXCEPT ![p] = Returned(res)]
    /\ UNCHANGED << cacheMounts, shares, refShares, refHandles >>

\* getRefCacheDirNoCache returns a mutable ref.  For SHARED, lines 467-469
\* put it in a new process-wide share and clone that; lines 84-90 then embed
\* the result in a new share of the manager and return a clone of it.
GetSucceeds(p, made) ==
    LET r  == Len(mutableRefs) + 1
        k  == proc[p].key
        s1 == Len(refShares) + 1
        h1 == Len(refHandles) + 1
    IN
    /\ mutableRefs' = Append(mutableRefs, NewMutableRef(k, made))
    /\ IF proc[p].sharing = "SHARED"
       THEN /\ refShares' = refShares \o
                   << NewShare(Wraps("mref", r), TRUE, k, h1),
                      NewShare(Wraps("cacheRef", h1), FALSE, k, h1 + 1) >>
            /\ refHandles' = refHandles \o
                   << NewHandle(s1, FALSE), NewHandle(s1 + 1, TRUE) >>
            /\ shares' = [shares EXCEPT ![k] = s1]
            /\ cacheMounts' = [cacheMounts EXCEPT ![proc[p].m][k] = s1 + 1]
            /\ proc' = [proc EXCEPT ![p] = Returned("ok")]
       ELSE /\ refShares' = Append(refShares,
                                   NewShare(Wraps("mref", r), FALSE, k, h1))
            /\ refHandles' = Append(refHandles, NewHandle(s1, TRUE))
            /\ cacheMounts' = [cacheMounts EXCEPT ![proc[p].m][k] = s1]
            /\ proc' = [proc EXCEPT ![p] = Returned("ok")]
            /\ UNCHANGED shares
    /\ cacheRefsLocker' = [cacheRefsLocker EXCEPT ![k] = @ \ {p}]
    /\ sharesMu' = sharesMu \ {p}
    /\ cacheMountsMu' = [cacheMountsMu EXCEPT ![proc[p].m] = @ \ {p}]

\* A loop that never waits.
Blocks_Never(block, locked) == FALSE

\* Line 134: if block && locked
Blocks(block, locked) == block /\ locked

\* Lines 118-133: one pass of the loop of getRefCacheDirNoCache and what it
\* ends with.  A failed search and a ref cm.GetMutable could take return at
\* once; otherwise the loop is left with the local variable locked.
Scan(p, outcome) ==
    /\ proc[p].pc = "scan"
    /\ IF outcome = "searcherr"
       THEN GetFails(p, "err", mutableRefs)
       ELSE IF outcome = "reuse"
       THEN GetSucceeds(p, FALSE)
       ELSE /\ proc' = [proc EXCEPT ![p].pc = "decide", ![p].seen = outcome]
            /\ UNCHANGED << cacheMountsMu, cacheMounts, sharesMu, shares,
                            cacheRefsLocker, refShares, refHandles,
                            mutableRefs >>
    /\ UNCHANGED gets
    /\ UNCHANGED receiverVars

\* Lines 134-157: the wait of lines 135-142, with the lock of the key
\* unlocked, or the making of a new ref (newOk: cm.New succeeds; indexOk:
\* setCacheDirIndex succeeds, else the new ref is released).
Decide(p, newOk, indexOk) ==
    /\ proc[p].pc = "decide"
    /\ IF Blocks(proc[p].sharing = "LOCKED", proc[p].seen = "locked")
       THEN /\ cacheRefsLocker' =
                  [cacheRefsLocker EXCEPT ![proc[p].key] = @ \ {p}]
            /\ proc' = [proc EXCEPT ![p].pc = "wait"]
            /\ UNCHANGED << cacheMountsMu, cacheMounts, sharesMu, shares,
                            refShares, refHandles, mutableRefs >>
       ELSE IF ~newOk
       THEN GetFails(p, "err", mutableRefs)
       ELSE IF ~indexOk
       THEN GetFails(p, "err",
                     Append(mutableRefs,
                            [NewMutableRef(proc[p].key, TRUE)
                               EXCEPT !.released = 1]))
       ELSE GetSucceeds(p, TRUE)
    /\ UNCHANGED gets
    /\ UNCHANGED receiverVars

\* Lines 140-141: the timer fires, the lock of the key is taken again and
\* the loop goes round.
WaitTimer(p) ==
    /\ proc[p].pc = "wait"
    /\ cacheRefsLocker[proc[p].key] = {}
    /\ cacheRefsLocker' = [cacheRefsLocker EXCEPT ![proc[p].key] = {p}]
    /\ proc' = [proc EXCEPT ![p].pc = "scan", ![p].seen = "none"]
    /\ UNCHANGED << cacheMountsMu, cacheMounts, sharesMu, shares, refShares,
                    refHandles, mutableRefs, gets >>
    /\ UNCHANGED receiverVars

\* Lines 137-139: the context is cancelled during the wait; the lock of the
\* key is taken again and the call returns context.Cause(ctx), the deferred
\* calls unlocking the key and the manager.
WaitCancelled(p) ==
    /\ proc[p].pc = "wait"
    /\ cacheRefsLocker[proc[p].key] = {}
    /\ GetFails(p, "cancelled", mutableRefs)
    /\ UNCHANGED gets
    /\ UNCHANGED receiverVars

\* The handle Release is working on: the one the caller released or, below
\* it, the clone of the process-wide share its share embeds.
Current(p) == IF proc[p].hn # 0 THEN proc[p].hn ELSE proc[p].h

\* The caller releases handle h, which getRefCacheDir returned to it, once.
StartRelease(p, h) ==
    /\ proc[p].pc = "idle"
    /\ refHandles[h].user /\ ~refHandles[h].dropped
    /\ refHandles' = [refHandles EXCEPT ![h].dropped = TRUE]
    /\ proc' = [proc EXCEPT ![p] =
                  [IdleProc EXCEPT
                     !.h = h,
                     !.pc = IF refShares[refHandles[h].share].main
                            THEN "rglock" ELSE "rlock"]]
    /\ UNCHANGED << cacheMountsMu, cacheMounts, sharesMu, shares,
                    cacheRefsLocker, refShares, mutableRefs, gets >>
    /\ UNCHANGED receiverVars

\* Lines 520-523: r.main.mu.Lock()
ReleaseGlobalLock(p) ==
    /\ proc[p].pc = "rglock"
    /\ sharesMu = {}
    /\ sharesMu' = {p}
    /\ proc' = [proc EXCEPT ![p].pc = "rlock"]
    /\ UNCHANGED << cacheMountsMu, cacheMounts, shares, cacheRefsLocker,
                    refShares, refHandles, mutableRefs, gets >>
    /\ UNCHANGED receiverVars

\* Shares whose mutexes stay locked.
Unlocked_None(ss, p) == ss

\* The shares after Release has returned: the mutexes goroutine p holds on
\* shares are unlocked by the deferred calls of every frame.
Unlocked(ss, p) == [s \in 1..Len(ss) |-> [ss[s] EXCEPT !.mu = @ \ {p}]]

\* The clones of share s that are left when handle h is deleted.
RefsLeft(s, h) == refShares[s].refs \ {h}

\* Lines 524-533 and 495-504: r.mu.Lock(), and under the mutex the handle
\* is deleted from the clones of its share; when none is left the share is released: its key is deleted from
\* the process-wide table (if it has one) and Release is called on what it
\* embeds, which is a mutable ref or a clone of the process-wide share (then
\* Release goes on with that clone, the locks still held).
ReleaseDelete(p) ==
    LET h == Current(p)
        s == refHandles[h].share
        w == refShares[s].wraps
        deleted == [refShares EXCEPT ![s].refs = RefsLeft(s, h), ![s].mu = {p}]
        counted == [refHandles EXCEPT ![h].released = @ + 1]
    IN
    /\ proc[p].pc = "rlock"
    /\ refShares[s].mu = {}
    /\ refHandles' = counted
    /\ shares' = IF RefsLeft(s, h) = {} /\ refShares[s].main
                 THEN [shares EXCEPT ![refShares[s].key] = 0]
                 ELSE shares
    /\ IF RefsLeft(s, h) = {} /\ w.kind = "cacheRef"
       THEN /\ refShares' = deleted
            /\ proc' = [proc EXCEPT
                          ![p].hn = w.id,
                          ![p].pc = IF refShares[refHandles[w.id].share].main
                                    THEN "rglock" ELSE "rlock"]
            /\ UNCHANGED << sharesMu, mutableRefs >>
       ELSE /\ refShares' = Unlocked(deleted, p)
            /\ sharesMu' = sharesMu \ {p}
            /\ mutableRefs' =
                  IF RefsLeft(s, h) = {}
                  THEN [mutableRefs EXCEPT ![w.id].released = @ + 1]
                  ELSE mutableRefs
            /\ proc' = [proc EXCEPT ![p] = Returned("ok")]
    /\ UNCHANGED << cacheMountsMu, cacheMounts, cacheRefsLocker, gets >>
    /\ UNCHANGED receiverVars

\* The steps of a call goroutine p is in.
ProcStep(p) ==
    \/ GetLock(p)
    \/ GetClone(p)
    \/ GetGlobalLock(p)
    \/ GetGlobalClone(p)
    \/ KeyLock(p)
    \/ \E outcome \in ScanOutcomes : Scan(p, outcome)
    \/ \E newOk, indexOk \in BOOLEAN : Decide(p, newOk, indexOk)
    \/ WaitTimer(p)
    \/ WaitCancelled(p)
    \/ ReleaseGlobalLock(p)
    \/ ReleaseDelete(p)

InitMount ==
    /\ sep = Slash
    /\ metadataTransfer = FALSE
    /\ dest = NoEntry
    /\ source = NoSource /\ lk = NoLocks
    /\ InitReceiver
    /\ InitMounts

NextMount ==
    \/ \E p \in Procs, m \in Managers, k \in Keys, sharing \in SharingOpts :
          StartGet(p, m, k, sharing)
    \/ \E p \in Procs, h \in 1..Len(refHandles) : StartRelease(p, h)
    \/ \E p \in Procs : ProcStep(p)

SpecMount == InitMount /\ [][NextMount]_vars

\* getRefCacheDir calls in one run under fairness (SpecMountFair).
MaxFairGets == 2

NextMountFair ==
    \/ \E p \in Procs, m \in Managers, k \in Keys, sharing \in SharingOpts :
          gets < MaxFairGets /\ StartGet(p, m, k, sharing)
    \/ \E p \in Procs, h \in 1..Len(refHandles) : StartRelease(p, h)
    \/ \E p \in Procs : ProcStep(p)

\* The goroutines are scheduled, and a goroutine that finds a mutex free
\* again and again gets it in the end (sync.Mutex hands a starving waiter
\* the mutex).
SpecMountFair ==
    /\ InitMount
    /\ [][NextMountFair]_vars
    /\ \A p \in Procs : SF_vars(ProcStep(p))

\* ------------------------------------------------------------------
\* Reading the history
\* ------------------------------------------------------------------

\* The last element of a non-empty sequence.
Last(s) == s[Len(s)]

\* A received packet is a non-empty Stat that reached the validators: its
\* path is representable and it was not skipped as the reserved name.
StatValidated(m) ==
    /\ m.type = "STAT"
    /\ Representable(m.stat.path)
    /\ ~(metadataTransfer /\ FromSlash(m.stat.path) = metadataPath)

\* The native path of the last Stat of history h that reached the
\* validators ("" when there is none).
LastValidatedPath(h) ==
    LET S == {k \in 1..Len(h) : StatValidated(h[k])}
    IN  IF S = {} THEN <<>>
        ELSE FromSlash(h[CHOOSE k \in S : \A j \in S : j <= k].stat.path)

\* Packet k of the history was handled without failing: a failure ends the
\* task, so only the last packet received can have failed.
Handled(k) == k < Len(recvd) \/ pc \notin {"err", "panic"}

\* This step receives one packet.
Receives == pc = "recv" /\ Len(recvd') = Len(recvd) + 1

\* Directory q is a proper ancestor of path p.
IsAncestor(q, p) ==
    /\ Len(q) < Len(p)
    /\ SubSeq(p, 1, Len(q)) = q
    /\ IsPathSeparator(p[Len(q) + 1])

\* The entries of a sequence, as a set.
Range(s) == {s[k] : k \in 1..Len(s)}

TargetSeen(h, st) ==
    \E k \in 1..Len(h) :
        h[k].type = "STAT" /\ FromSlash(h[k].stat.path) = FromSlash(st.linkname)

\* Some Stat of history h that reached the validators was a regular file
\* (not itself a link) at the link target of st.
TargetSeenAsRegular(h, st) ==
    \E k \in 1..Len(h) :
        /\ StatValidated(h[k])
        /\ FromSlash(h[k].stat.path) = FromSlash(st.linkname)
        /\ h[k].stat.mode = "reg" /\ h[k].stat.linkname = <<>>

\* This step receives a hardlink Stat.
ReceivesHardlink ==
    Receives /\ Last(recvd').type = "STAT" /\ IsHardlink(Last(recvd').stat)

\* This step forwards entry e last.
ForwardsLast(e) == Len(walkChan') > Len(walkChan) /\ Last(walkChan') = e

\* C2 as claimed: a hardlink whose target was not observed earlier is
\* rejected (the task fails) and not forwarded; a hardlink whose target was
\* observed earlier as a regular file is accepted and forwarded.
C2_Original ==
    [][ ReceivesHardlink =>
          LET st == Last(recvd').stat IN
          /\ ~TargetSeen(recvd, st) => (pc' = "err" /\ walkChan' = walkChan)
          /\ TargetSeenAsRegular(recvd, st) =>
                (pc' = "recv" /\ ForwardsLast(NativeStat(st))) ]_vars

\* C2 as amended: a hardlink whose target was not observed earlier is never
\* forwarded, and it makes the task fail unless it is skipped as the
\* reserved name of a metadata-only transfer; a hardlink whose target was
\* observed earlier as a regular file is accepted by the hardlink validator,
\* and it is forwarded when its path is representable, not the skipped
\* reserved name and in order, the feed is open, and (in a metadata-only
\* transfer) the metadata-only filter accepts it.
C2_HardlinkValidated ==
    [][ ReceivesHardlink =>
          LET st   == Last(recvd').stat
              path == FromSlash(st.path)
              skip == metadataTransfer /\ path = metadataPath
          IN
          /\ ~TargetSeen(recvd, st) =>
                (walkChan' = walkChan /\ (pc' = "err" \/ skip))
          /\ TargetSeenAsRegular(recvd, st) =>
                /\ err' # "hardlink"
                /\ ( /\ Representable(st.path) /\ ~skip
                     /\ StrLess(LastValidatedPath(recvd), path)
                     /\ metadataTransfer => Last(recvd').keep
                     /\ ~closeCh /\ ~walkClosed )
                   => (pc' = "recv" /\ ForwardsLast(NativeStat(st))) ]_vars

\* A hardlink was forwarded.
C2_Witness == \E k \in 1..Len(walkChan) : IsHardlink(walkChan[k])

\* ------------------------------------------------------------------
\* C3: the identifier recorded for a path is the zero-based index, in the
\* sequence of non-empty Stat packets received, of the Stat that made the
\* path requestable (the last regular-file Stat of that path that was not
\* metadata-only).
\* ------------------------------------------------------------------

\* The non-empty Stat packets of history h, in order.
StatsOf(h) == SelectSeq(h, LAMBDA m : m.type = "STAT")

C3_IdIsStatIndex ==
    \A p \in DOMAIN files :
        LET sts == StatsOf(recvd)
            S   == {k \in 1..Len(sts) :
                      /\ StatValidated(sts[k])
                      /\ FromSlash(sts[k].stat.path) = p
                      /\ sts[k].stat.mode = "reg"
                      /\ metadataTransfer => sts[k].keep}
        IN  /\ S # {}
            /\ files[p] = (CHOOSE k \in S : \A j \in S : j <= k) - 1

\* ------------------------------------------------------------------
\* C4: whatever the interleaving of the Stat handler with the content
\* pulls, no two REQ packets sent carry the same identifier, and no two
\* are sent for the same path.
\* ------------------------------------------------------------------

\* The positions of the REQ packets among the packets sent.
Requests == {n \in 1..Len(sent) : sent[n].type = "REQ"}

C4_RequestedOnce ==
    \A m, n \in Requests :
        m # n => /\ sent[m].id # sent[n].id
                 /\ CallPath(sent[m].call) # CallPath(sent[n].call)

\* Two REQs were sent, the second Stat handled after the first pull had
\* taken its identifier.
C4_Witness ==
    /\ Cardinality(Requests) = 2
    /\ \E k \in 1..Len(calls) : calls[k].found /\ calls[k].id = 1

\* ------------------------------------------------------------------
\* C5: a Data packet for an identifier whose zero-length chunk was processed
\* earlier fails with "invalid file request" and reaches no sink.
\* ------------------------------------------------------------------

\* A zero-length chunk for id was processed: it was received and the
\* packet-dispatch task went on to receive.
EndProcessed(id) ==
    /\ pc = "recv"
    /\ \E j \in 1..Len(recvd) :
          /\ recvd[j].type = "DATA"
          /\ recvd[j].id = id
          /\ recvd[j].data = <<>>

\* This step receives a Data packet for id.
ReceivesData(id) ==
    Receives /\ Last(recvd').type = "DATA" /\ Last(recvd').id = id

C5_DataAfterEndRejected ==
    [][\A id \in PeerIds :
          EndProcessed(id) /\ ReceivesData(id)
             => /\ pc' = "err" /\ err' = "invalid file request"
                /\ calls' = calls]_vars

\* ------------------------------------------------------------------
\* C6: a Data packet whose identifier has no sink in r.pipes ends the
\* packet-dispatch task with "invalid file request"; no sink is written or
\* closed, and the context of the transfer is cancelled.
\* ------------------------------------------------------------------

C6_NoSinkRejected ==
    [][\A id \in PeerIds :
          ReceivesData(id) /\ id \notin DOMAIN pipes
             => /\ pc' = "err" /\ err' = "invalid file request"
                /\ calls' = calls
                /\ ctxDone']_vars

\* A Data packet was rejected while a content pull with another identifier
\* was waiting on its sink, which has received nothing.
C6_Witness ==
    /\ pc = "err" /\ err = "invalid file request"
    /\ Last(recvd).type = "DATA"
    /\ \E k \in 1..Len(calls) :
          /\ calls[k].pc = "waiting"
          /\ calls[k].id # Last(recvd).id
          /\ calls[k].ops = <<>>

\* ------------------------------------------------------------------
\* C7: the chunks handed to the Write of the sink of an identifier are the
\* non-empty chunks of the Data packets received for that identifier while
\* its sink was registered, in arrival order; a sink no pull registered
\* receives nothing.
\* ------------------------------------------------------------------

\* Packet j was a Data packet that found a sink.
FoundSink(j) ==
    /\ recvd[j].type = "DATA"
    /\ ~(j = Len(recvd) /\ pc \in {"err", "panic"}
                        /\ err \in {"invalid file request", "nil sink"})

\* The non-empty chunks of the Data packets for id that found a sink.
RECURSIVE ChunksUpTo(_, _)
ChunksUpTo(id, n) ==
    IF n = 0 THEN <<>>
    ELSE IF FoundSink(n) /\ recvd[n].id = id /\ recvd[n].data # <<>>
         THEN Append(ChunksUpTo(id, n - 1), recvd[n].data)
         ELSE ChunksUpTo(id, n - 1)

\* The chunks written to a sink, in order.
RECURSIVE Written(_)
Written(ops) ==
    IF ops = <<>> THEN <<>>
    ELSE LET rest == Written(SubSeq(ops, 1, Len(ops) - 1))
         IN  IF Last(ops).op = "write" THEN Append(rest, Last(ops).data)
             ELSE rest

C7_WrittenInArrivalOrder ==
    \A k \in 1..Len(calls) :
        IF calls[k].found
        THEN Written(calls[k].ops) = ChunksUpTo(calls[k].id, Len(recvd))
        ELSE calls[k].ops = <<>>

\* Two sinks are outstanding and each was written a chunk, the two chunks
\* different.
C7_Witness ==
    \E k, l \in 1..Len(calls) :
        /\ calls[k].id # calls[l].id
        /\ calls[k].pc = "waiting" /\ calls[l].pc = "waiting"
        /\ Written(calls[k].ops) = << <<120>> >>
        /\ Written(calls[l].ops) = << <<121>> >>

\* ------------------------------------------------------------------
\* C8: replay of the ancestors in a metadata-only transfer.
\* ------------------------------------------------------------------

\* This step handles, without failing, a Stat of a metadata-only transfer
\* that the metadata-only filter accepts.
AcceptsEntry ==
    /\ Receives /\ metadataTransfer
    /\ StatValidated(Last(recvd')) /\ Last(recvd').keep
    /\ pc' = "recv"

\* The entries this step forwards, in order.
NewlyForwarded == SubSeq(walkChan', Len(walkChan) + 1, Len(walkChan'))

\* The directories of history h that reached the validators, in native form.
ReceivedDirs(h) ==
    {NativeStat(h[k].stat) : k \in {j \in 1..Len(h) :
                                      StatValidated(h[j]) /\ IsDir(h[j].stat)}}

\* The ancestor directories of path p received in history h and not yet
\* forwarded.
PendingAncestors(h, p) ==
    {d \in ReceivedDirs(h) : IsAncestor(d.path, p) /\ d \notin Range(walkChan)}

\* C8 as claimed: when an entry is accepted, every ancestor directory of it
\* that was received but not yet forwarded is forwarded before the entry,
\* in root-to-leaf order.
C8_Original ==
    [][ AcceptsEntry =>
          LET cp  == NativeStat(Last(recvd').stat)
              new == NewlyForwarded
          IN  /\ new # <<>> /\ Last(new) = cp
              /\ \A a \in PendingAncestors(recvd, cp.path) :
                    \E k \in 1..(Len(new) - 1) : new[k] = a
              /\ \A j, k \in 1..(Len(new) - 1) :
                    j < k => Len(new[j].path) < Len(new[k].path) ]_vars

\* C8 as amended: when an entry is accepted, the directories held on the
\* ancestor stack once it is trimmed to the entry's parent are forwarded
\* before the entry, bottom first; they are ancestors of the entry that were
\* received and not yet forwarded, each the parent directory of the next and
\* the last the parent of the entry, so the order is root-to-leaf.
C8_StackReplayed ==
    [][ AcceptsEntry =>
          LET cp  == NativeStat(Last(recvd').stat)
              new == NewlyForwarded
              S   == TrimTo(metadataParents, Dir(cp.path))
          IN  /\ Len(new) > Len(S)
              /\ SubSeq(new, 1, Len(S)) = S
              /\ \A k \in (Len(S) + 1)..Len(new) : new[k] = cp
              /\ \A k \in 1..Len(S) :
                    S[k] \in PendingAncestors(recvd, cp.path)
              /\ \A k \in 1..(Len(S) - 1) : S[k].path = Dir(S[k + 1].path)
              /\ S # <<>> => Last(S).path = Dir(cp.path) ]_vars

\* Two directories rejected by the filter were replayed before an accepted
\* entry below them: dir/, dir/sub/, dir/sub/match.
C8_Witness ==
    /\ metadataTransfer /\ pc = "recv"
    /\ Len(recvd) = 3 /\ Len(walkChan) = 3
    /\ ~recvd[1].keep /\ ~recvd[2].keep /\ recvd[3].keep
    /\ walkChan[1].path = Dir(walkChan[2].path)
    /\ walkChan[2].path = Dir(walkChan[3].path)
    /\ walkChan[3] = NativeStat(recvd[3].stat)

\* ------------------------------------------------------------------
\* C9: in a metadata-only transfer no entry is forwarded twice.
\* ------------------------------------------------------------------
C9_ForwardedOnce ==
    metadataTransfer =>
        \A j, k \in 1..Len(walkChan) : j < k => walkChan[j] # walkChan[k]

\* ------------------------------------------------------------------
\* C10: in a metadata-only transfer an entry rejected by the metadata-only
\* filter is forwarded only if it is a directory and a later entry inside
\* its subtree was accepted by the filter.
\* ------------------------------------------------------------------
C10_RejectedOnlyReplayed ==
    metadataTransfer =>
        \A n \in 1..Len(walkChan) :
            \A k \in 1..Len(recvd) :
                ( /\ StatValidated(recvd[k]) /\ Handled(k)
                  /\ NativeStat(recvd[k].stat) = walkChan[n]
                  /\ ~recvd[k].keep )
                => /\ IsDir(walkChan[n])
                   /\ \E m \in (k + 1)..Len(recvd) :
                         /\ StatValidated(recvd[m]) /\ recvd[m].keep
                         /\ IsAncestor(walkChan[n].path,
                                       FromSlash(recvd[m].stat.path))

\* A directory rejected by the filter was forwarded.
C10_Witness ==
    /\ metadataTransfer
    /\ \E n \in 1..Len(walkChan), k \in 1..Len(recvd) :
          /\ StatValidated(recvd[k]) /\ Handled(k) /\ ~recvd[k].keep
          /\ NativeStat(recvd[k].stat) = walkChan[n]

\* ------------------------------------------------------------------
\* C11: whether or not a metadata-only filter is configured, no entry
\* forwarded to the feed has the reserved metadata name as its path, and
\* the reserved name is never a key of r.files.
\* ------------------------------------------------------------------

C11_ReservedNeverAccepted ==
    /\ \A n \in 1..Len(walkChan) : walkChan[n].path # metadataPath
    /\ metadataPath \notin DOMAIN files

\* ------------------------------------------------------------------
\* C12: the metadata log is persisted under the reserved name only when
\* Receive returns, a metadata-only filter is configured and both tasks
\* returned without error; when Receive then returns success the entry of
\* the reserved name is a file that holds exactly the log; in every other
\* run the entry of the reserved name is left as it was.
\* ------------------------------------------------------------------

\* This step is the return of Receive.
Returns == ret = "running" /\ ret' # "running"

\* Both tasks returned without error.
TasksSucceeded == pc = "ok" /\ wpc = "ok"

\* The statement as claimed: on return the log is there if and only if a
\* filter is configured and both tasks succeeded, and a failed task or a
\* cancelled transfer leaves the entry untouched.
C12_Original ==
    [][Returns =>
          /\ dest'.kind = "log" <=> (metadataTransfer /\ TasksSucceeded)
          /\ (~TasksSucceeded \/ ctxDone) => dest' = dest]_vars

C12_LogPersisted ==
    [][/\ dest' # dest => Returns /\ metadataTransfer /\ TasksSucceeded
       /\ (Returns /\ metadataTransfer /\ TasksSucceeded /\ ret' = "nil")
             => dest' = [kind |-> "log", log |-> metadataBuffer]]_vars

\* Receive returned success and left a log of at least one record.
C12_Witness ==
    /\ ret = "nil"
    /\ dest.kind = "log" /\ dest.log # <<>>
    /\ dest.log = metadataBuffer

\* ------------------------------------------------------------------
\* C13: in a metadata-only transfer the metadata log is, at every moment,
\* the sequence of the length-prefixed records of the non-empty Stats
\* received so far whose path is representable and not the reserved name,
\* in arrival order, whatever the metadata-only filter and the validators
\* said of them; it only ever grows at its end.
\* ------------------------------------------------------------------

\* Sequence s is a prefix of sequence t.
IsPrefix(s, t) == Len(s) <= Len(t) /\ SubSeq(t, 1, Len(s)) = s

\* The log the Stats of history h make.
ExpectedLog(h) ==
    LET S == SelectSeq(h, StatValidated)
    IN  [k \in 1..Len(S) |-> Frame(S[k].stat)]

C13_LogOfStats ==
    [][/\ IsPrefix(metadataBuffer, metadataBuffer')
       /\ metadataTransfer => metadataBuffer' = ExpectedLog(recvd')]_vars

\* The log holds three records: one of an entry the metadata-only filter
\* rejected, and the last of an entry the ordering validator rejected.
C13_Witness ==
    /\ metadataTransfer
    /\ pc = "err" /\ err = "order"
    /\ Len(metadataBuffer) = 3
    /\ \E k \in 1..Len(recvd) - 1 : recvd[k].type = "STAT" /\ ~recvd[k].keep

\* ------------------------------------------------------------------
\* C14: after FIN every packet received is discarded and changes nothing
\* of the receiver; the packet-dispatch task returns success when, and
\* only when, the stream reports its end, and returns the error on any
\* other receive error.
\* ------------------------------------------------------------------

\* The state of the receiver a packet can change.
receiverState ==
    << i, files, pipes, orderLast, hlSeen, metadataParents, metadataBuffer,
       walkChan, walkClosed, closeCh, calls, sent >>

C14_DrainDiscards ==
    [][(pc = "drain" /\ Len(recvd') = Len(recvd) + 1) =>
          /\ UNCHANGED receiverState
          /\ Last(recvd').type = "DRAINED" => UNCHANGED << pc, err, gerr >>
          /\ Last(recvd').type = "RECVERR" =>
                IF Last(recvd').eof
                THEN pc' = "ok" /\ UNCHANGED << err, gerr >>
                ELSE pc' = "err" /\ err' = "receive error"]_vars

\* A Stat was handled before FIN, a Stat and a Data packet were discarded
\* after it and the task returned success: the counter still stands at 1.
C14_Witness ==
    /\ pc = "ok" /\ i = 1
    /\ \E k \in 1..Len(recvd) : recvd[k].type = "DRAINED" /\ recvd[k].was = "STAT"
    /\ Last(recvd).type = "RECVERR"

\* ------------------------------------------------------------------
\* C15: an ERR packet received before FIN ends the packet-dispatch task at
\* once, with an error that carries the packet's text; if no task failed
\* before, that error is the one Receive returns.
\* ------------------------------------------------------------------

C15_ErrAborts ==
    \A k \in 1..Len(recvd) :
        recvd[k].type = "ERR" =>
            /\ k = Len(recvd)
            /\ pc = "err" /\ err = "error from sender"
            /\ errArg = recvd[k].data
            /\ gerr = "dispatch" => ret \in {"running", "dispatch"}

\* Receive returned the error of an ERR packet received after other packets.
C15_Witness ==
    /\ ret = "dispatch"
    /\ err = "error from sender" /\ errArg = <<102>>
    /\ Len(recvd) >= 2 /\ Last(recvd).type = "ERR"

\* ------------------------------------------------------------------
\* C16: when Receive has returned a failure, an ERR packet was sent to the
\* peer.
\* ------------------------------------------------------------------

C16_ErrSentOnFailure ==
    ret \notin {"running", "nil"} =>
        \E n \in 1..Len(sent) : sent[n].type = "ERR"

\* ------------------------------------------------------------------
\* C17: when FIN has been sent, the empty Stat was received, every entry
\* forwarded was passed on, every REQ was sent before the FIN and the pull
\* that sent it has returned after its sink was closed.
\* ------------------------------------------------------------------

\* The positions of the FIN packets among the packets sent.
Finishes == {n \in 1..Len(sent) : sent[n].type = "FIN"}

C17_FinAfterAll ==
    \A f \in Finishes :
        /\ \E k \in 1..Len(recvd) : recvd[k].type = "EOF"
        /\ walkClosed /\ delivered = Len(walkChan)
        /\ \A n \in 1..Len(sent) :
              sent[n].type = "REQ" =>
                  /\ n < f
                  /\ calls[sent[n].call].pc = "done"
                  /\ calls[sent[n].call].done
                  /\ \E o \in 1..Len(calls[sent[n].call].ops) :
                        calls[sent[n].call].ops[o].op = "close"

\* FIN was sent after a REQ whose content arrived.
C17_Witness ==
    /\ Finishes # {}
    /\ \E n \in 1..Len(sent) :
          sent[n].type = "REQ" /\ Written(calls[sent[n].call].ops) # <<>>

\* ------------------------------------------------------------------
\* C18: a Stat whose wire path holds the separator of a platform whose
\* separator is not '/' ends the task with a path error that names the wire
\* path; it takes no identifier, is not recorded in r.files or in the
\* metadata log, and is not forwarded.  Where the separator is '/', no Stat
\* fails this check.
\* ------------------------------------------------------------------

\* The wire path holds the platform's separator, and that is not '/'.
HasNativeSeparator(p) == sep # Slash /\ \E k \in 1..Len(p) : p[k] = sep

\* This step receives a non-empty Stat.
ReceivesStat == Receives /\ Last(recvd').type = "STAT"

C18_UnrepresentableRejected ==
    [][ReceivesStat =>
          /\ HasNativeSeparator(Last(recvd').stat.path) =>
                /\ pc' = "err" /\ err' = "unrepresentable path"
                /\ errArg' = Last(recvd').stat.path
                /\ UNCHANGED << i, files, metadataBuffer, walkChan,
                                metadataParents >>
          /\ sep = Slash => err' # "unrepresentable path"]_vars

\* On a backslash platform "a\b" was rejected after another Stat was
\* handled.
C18_Witness ==
    /\ sep = Backslash
    /\ err = "unrepresentable path" /\ errArg = <<97, 92, 98>>
    /\ i = 1 /\ Len(walkChan) = 1

\* ------------------------------------------------------------------
\* C19: a content pull for a path that has no identifier in r.files fails
\* with "invalid file request"; it sends nothing, registers no sink and
\* leaves r.files and r.pipes as they were.
\* ------------------------------------------------------------------

C19_UnknownPathRejected ==
    [][\A k \in 1..Len(calls) :
          (/\ calls[k].pc = "start"
           /\ CallPath(k) \notin DOMAIN files
           /\ calls'[k] # calls[k])
             => /\ calls'[k].pc = "fail"
                /\ calls'[k].cerr = "invalid file request"
                /\ UNCHANGED << sent, pipes, files >>]_vars

\* A pull failed so while the sink of another pull was registered.
C19_Witness ==
    /\ \E k \in 1..Len(calls) : calls[k].cerr = "invalid file request"
    /\ DOMAIN pipes # {}

\* ------------------------------------------------------------------
\* C20: a content pull that waits on its sink returns only once the sink
\* was closed, with the result of the close, or once the context is
\* cancelled, with the cancellation error; its return does nothing to the
\* sink.
\* ------------------------------------------------------------------

C20_WaitReturns ==
    [][\A k \in 1..Len(calls) :
          (calls[k].pc = "waiting" /\ calls'[k].pc # "waiting") =>
             /\ calls'[k].ops = calls[k].ops
             /\ \/ /\ calls[k].done
                   /\ calls'[k].cerr =
                        IF calls[k].werr THEN "close error" ELSE "none"
                   /\ calls'[k].pc = IF calls[k].werr THEN "fail" ELSE "closed"
                \/ /\ ctxDone
                   /\ calls'[k].cerr = "context canceled"
                   /\ calls'[k].pc = "fail"]_vars

\* A pull returned the cancellation error; its sink had received a chunk
\* and was never closed.
C20_Witness ==
    \E k \in 1..Len(calls) :
        /\ calls[k].cerr = "context canceled"
        /\ calls[k].ops # <<>>
        /\ \A o \in 1..Len(calls[k].ops) : calls[k].ops[o].op = "write"

\* ------------------------------------------------------------------
\* C21: the two tasks are joined fail-fast.  A task that returns an error
\* leaves the shared context cancelled; the error of the group is the error
\* of the task that failed first and is never replaced; and when a task
\* failed, Receive returns that first error.
\* ------------------------------------------------------------------

\* This step is the failure of the packet-dispatch task.
DispatchFails == pc # "err" /\ pc' = "err"

\* This step is the failure of the diff/walk task.
WalkFails == wpc # "err" /\ wpc' = "err"

C21_FailFast ==
    [][/\ (DispatchFails \/ WalkFails) => ctxDone'
       /\ (gerr = "none" /\ DispatchFails) => gerr' = "dispatch"
       /\ (gerr = "none" /\ WalkFails) => gerr' = "walk"
       /\ gerr # "none" => gerr' = gerr
       /\ (Returns /\ gerr # "none") => ret' = gerr]_vars

\* The packet-dispatch task failed on a Data packet, the diff/walk task
\* failed after it on the cancelled context, and Receive returned the error
\* of the packet-dispatch task.
C21_Witness ==
    /\ ret = "dispatch"
    /\ pc = "err" /\ err = "invalid file request"
    /\ wpc = "err"

\* ------------------------------------------------------------------
\* C22: once the context of the transfer is cancelled, Receive returns,
\* whatever the peer does or does not send (a panic of the packet-dispatch
\* task apart).
\* ------------------------------------------------------------------

C22_CancelReturns ==
    (ctxDone /\ pc # "panic") ~> (ret # "running" \/ pc = "panic")


\* ------------------------------------------------------------------
\* C23: round trip.  When a transfer from a well-behaved sender, with
\* diff = none, no metadata-only filter and an empty destination, returns
\* success, every entry of the source tree was forwarded to the change
\* consumer exactly once, in stream order, with its metadata unchanged, and
\* the bytes written to the sink of every regular file, which was closed,
\* are the bytes of the source file.
\* ------------------------------------------------------------------

\* The concatenation of a sequence of chunks.
RECURSIVE Concat(_)
Concat(chunks) ==
    IF chunks = <<>> THEN <<>>
    ELSE Concat(SubSeq(chunks, 1, Len(chunks) - 1)) \o Last(chunks)

C23_RoundTrip ==
    ret = "nil" =>
        /\ walkChan = [k \in 1..Len(source) |-> source[k].stat]
        /\ delivered = Len(source)
        /\ Len(calls) = Len(source)
        /\ \A k \in 1..Len(source) :
              IF source[k].stat.mode = "reg"
              THEN /\ Concat(Written(calls[k].ops)) = source[k].data
                   /\ calls[k].done
                   /\ calls[k].pc = "done"
              ELSE calls[k].ops = <<>>

\* A tree of three entries was transferred with success; the file "a/a"
\* arrived in two chunks and the file "b" is not empty.
C23_Witness ==
    /\ ret = "nil"
    /\ Len(source) = 3
    /\ Len(Written(calls[2].ops)) = 2
    /\ source[3].data # <<>>
    /\ Concat(Written(calls[3].ops)) = source[3].data


\* ------------------------------------------------------------------
\* C25: the sink table holds an entry for an identifier only from the
\* moment an asyncDataFunc call registers it until that call completes
\* normally: every entry belongs to a call that registered it and has not
\* completed normally, a call that completed normally has no entry, and
\* when Receive returns success the sink table is empty and the pending
\* table holds only paths that were never requested.
\* ------------------------------------------------------------------

\* No asyncDataFunc call was made for path p.
NeverRequested(p) ==
    \A k \in 1..Len(calls) : CallPath(k) = p => calls[k].pc = "skip"

C25_SinkTableLifetime ==
    /\ \A id \in DOMAIN pipes :
          LET k == pipes[id]
          IN  /\ k \in 1..Len(calls)
              /\ calls[k].id = id
              /\ calls[k].pc \in {"registered", "waiting", "closed", "fail"}
    /\ \A k \in 1..Len(calls) :
          /\ calls[k].pc \in {"registered", "waiting", "closed"}
                => (calls[k].id \in DOMAIN pipes /\ pipes[calls[k].id] = k)
          /\ calls[k].pc = "done" => calls[k].id \notin DOMAIN pipes
    /\ ret = "nil" =>
          /\ pipes = << >>
          /\ \A p \in DOMAIN files : NeverRequested(p)

\* Receive returned success after two content pulls completed normally.
C25_Witness ==
    /\ ret = "nil"
    /\ \E k, l \in 1..Len(calls) :
          /\ k # l
          /\ calls[k].pc = "done" /\ calls[l].pc = "done"
          /\ calls[k].id # calls[l].id


\* ------------------------------------------------------------------
\* C26: closing a sink on a zero-length Data chunk.
\* ------------------------------------------------------------------

\* This step receives a zero-length Data packet for an identifier that has
\* a sink.
ClosesSink ==
    /\ Receives
    /\ Last(recvd').type = "DATA"
    /\ Last(recvd').data = <<>>
    /\ Last(recvd').id \in DOMAIN pipes

\* The close releases the waiter whether or not it succeeded, and the
\* error of a failed close is returned by the packet-dispatch task, which
\* aborts the transfer.
CloseReleases ==
    ClosesSink =>
        LET k == pipes[Last(recvd').id]
        IN  /\ calls'[k].done
            /\ IF calls'[k].werr
               THEN pc' = "err" /\ err' = "close error" /\ ctxDone'
               ELSE pc' = "recv"

\* C26 as stated: the close releases the waiter, its error is returned by
\* the packet-dispatch task, and the asyncDataFunc call that waits on a
\* sink whose close failed returns that same error.
C26_Original ==
    [][/\ CloseReleases
       /\ \A k \in 1..Len(calls) :
             (calls[k].pc = "waiting" /\ calls[k].done /\ calls[k].werr
              /\ calls'[k].pc # "waiting")
                => calls'[k].cerr = "close error"]_vars

\* C26, amended: the close releases the waiter, its error is returned by
\* the packet-dispatch task, and the asyncDataFunc call that waits on the
\* closed sink returns either the result of the close or, the context being
\* cancelled, the cancellation error; a sink that was closed stays closed.
C26_CloseErrorPropagates ==
    [][/\ CloseReleases
       /\ \A k \in 1..Len(calls) :
             /\ (calls[k].pc = "waiting" /\ calls[k].done
                  /\ calls'[k].pc # "waiting")
                   => \/ /\ calls'[k].cerr = "close error"
                          /\ calls[k].werr /\ calls'[k].pc = "fail"
                      \/ /\ calls'[k].cerr = "none"
                          /\ ~calls[k].werr /\ calls'[k].pc = "closed"
                      \/ /\ calls'[k].cerr = "context canceled"
                          /\ ctxDone /\ calls'[k].pc = "fail"
             /\ calls[k].done => calls'[k].done]_vars

\* The close of a sink failed: the packet-dispatch task returned the error
\* and the call that waited on the sink returned it too.
C26_Witness ==
    /\ pc = "err" /\ err = "close error"
    /\ \E k \in 1..Len(calls) :
          /\ calls[k].pc = "fail" /\ calls[k].cerr = "close error"
          /\ calls[k].done /\ calls[k].werr


\* ------------------------------------------------------------------
\* C27: the walker feed is FIFO and lossless.  The entries fill has
\* delivered to the diff/walk phase are the first entries passed to update,
\* in the same order, and what was passed to update is never changed; fill
\* returns success only when the end-of-metadata marker was given and every
\* entry passed to update before it was delivered; once fill has ended
\* because of cancellation, an update (of an entry or of the marker) returns
\* the "walker is closed" error and leaves the feed as it is.
\* ------------------------------------------------------------------

\* This step receives a Stat packet (empty or not) that the handler passes
\* to w.update.
Updates ==
    /\ Receives
    /\ \/ Last(recvd').type = "EOF"
       \/ /\ StatValidated(Last(recvd'))
          /\ Last(recvd').keep
          /\ OrderAccepts(orderLast, FromSlash(Last(recvd').stat.path))
          /\ HlAccepts(hlSeen, NativeStat(Last(recvd').stat))

C27_FeedFifo ==
    [][/\ delivered' <= Len(walkChan')
       /\ Len(calls') = delivered'
       /\ \A k \in 1..delivered' : calls'[k].entry = walkChan'[k]
       /\ Len(walkChan) <= Len(walkChan')
       /\ SubSeq(walkChan', 1, Len(walkChan)) = walkChan
       /\ (wpc = "fill" /\ wpc' \in {"wait", "ok"})
             => (walkClosed /\ delivered = Len(walkChan))
       /\ (closeCh /\ Updates)
             => /\ pc' = "err" /\ err' = "walker is closed"
                /\ walkChan' = walkChan /\ walkClosed' = walkClosed]_vars

\* Two entries were passed to update before fill delivered the first; fill
\* delivered both and returned success.
C27_Witness ==
    /\ wpc = "wait"
    /\ delivered = 2
    /\ calls[1].entry # calls[2].entry
    /\ \E j \in 1..Len(recvd) : recvd[j].type = "EOF"


\* ------------------------------------------------------------------
\* C28: the ancestor stack of a metadata-only transfer.
\* ------------------------------------------------------------------

\* The stack is a chain of directories, each the parent directory of the
\* next, and holds no entry that was forwarded to the feed.
StackIsChain ==
    /\ \A j \in 1..Len(metadataParents) : IsDir(metadataParents[j])
    /\ \A j \in 1..(Len(metadataParents) - 1) :
          metadataParents[j].path = Dir(metadataParents[j + 1].path)
    /\ \A j \in 1..Len(metadataParents) :
          metadataParents[j] \notin Range(walkChan)

\* The top of the stack, if any, is entry st or the parent directory of st.
TopFits(st) ==
    \/ metadataParents = <<>>
    \/ Last(metadataParents) = st
    \/ Last(metadataParents).path = Dir(st.path)

AtLine(t) == lk.at[t]

C29_TablesUnderMutex ==
    /\ Cardinality(lk.mu) <= 1 /\ Cardinality(lk.muPipes) <= 1
    /\ \A t \in DOMAIN lk.at :
          /\ TableOf(AtLine(t)) = "files" => lk.mu = {t}
          /\ TableOf(AtLine(t)) = "pipes" => lk.muPipes = {t}
    /\ \A t, u \in DOMAIN lk.at :
          (t # u /\ TableOf(AtLine(t)) # "none")
             => TableOf(AtLine(t)) # TableOf(AtLine(u))

\* The dispatch task writes r.files while one call waits for r.mu and
\* another writes r.pipes.
C29_Witness ==
    /\ AtLine(0) = 258
    /\ AtLine(1) = 351
    /\ AtLine(2) = 362


\* ------------------------------------------------------------------
\* C30: the two validators and what a rejected entry leaves behind.
\* ------------------------------------------------------------------

\* This step handles a Stat that reaches the validators.
Validates == Receives /\ StatValidated(Last(recvd'))

\* The entry of the Stat this step receives.
Arriving == NativeStat(Last(recvd').stat)

\* The ordering validator rejects the arriving entry.
OrderRejects == ~StrLess(orderLast, Arriving.path)

\* The hardlink validator would reject the arriving entry.
HardlinkRejects == IsHardlink(Arriving) /\ Arriving.linkname \notin hlSeen

\* The arriving entry is in the pending table after the step, under the
\* identifier of its Stat.
ArrivingPending ==
    /\ Arriving.path \in DOMAIN files'
    /\ files'[Arriving.path] = i

\* The validators are consulted in sequence and nothing is forwarded that
\* one of them rejected: a rejection by the ordering validator is the error
\* of the task and leaves the seen-set of the hardlink validator unchanged,
\* a rejection by either aborts the transfer and forwards nothing.
ValidatedInSequence ==
    Validates =>
        /\ OrderRejects
              => (pc' = "err" /\ err' = "order" /\ hlSeen' = hlSeen)
        /\ (~OrderRejects /\ HardlinkRejects)
              => (pc' = "err" /\ err' = "hardlink" /\ hlSeen' = hlSeen)
        /\ (OrderRejects \/ HardlinkRejects) => walkChan' = walkChan
        /\ walkChan' # walkChan => (~OrderRejects /\ ~HardlinkRejects)

\* C30 as stated: the validators are consulted in sequence, and an entry
\* rejected by either validator is neither forwarded nor present in the
\* pending table.
C30_Original ==
    [][/\ ValidatedInSequence
       /\ (Validates /\ (OrderRejects \/ HardlinkRejects))
             => ~ArrivingPending]_vars

\* C30, amended: the validators are consulted in sequence and an entry
\* rejected by either is never forwarded; but the entry is recorded in the
\* pending table before the validators see it, so a rejected entry that can
\* carry content (and is not filtered out in a metadata-only transfer) is
\* present in the pending table, under its identifier, when the task fails.
C30_ValidatedBeforeForward ==
    [][/\ ValidatedInSequence
       /\ (Validates /\ (OrderRejects \/ HardlinkRejects))
             => IF fileCanRequestData(Arriving.mode)
                   /\ ~(metadataTransfer /\ ~Last(recvd').keep)
                THEN ArrivingPending
                ELSE files' = files]_vars

\* A hardlink that both validators reject was rejected by the ordering
\* validator; it is in the pending table.
C30_Witness ==
    /\ pc = "err" /\ err = "order"
    /\ recvd # <<>> /\ Last(recvd).type = "STAT"
    /\ IsHardlink(Last(recvd).stat)
    /\ FromSlash(Last(recvd).stat.linkname) \notin hlSeen
    /\ FromSlash(Last(recvd).stat.path) \in DOMAIN files
    /\ files[FromSlash(Last(recvd).stat.path)] = i - 1


\* ------------------------------------------------------------------
\* C31: a Stat packet (empty or not) received after the end-of-metadata
\* marker was processed never crashes the receiver: the packet-dispatch
\* task does not panic on it, and the feed holds nothing that was received
\* after the marker.
\* ------------------------------------------------------------------

\* The place of the first empty Stat in the history (0 when there is none).
MarkerAt ==
    LET S == {j \in 1..Len(recvd) : recvd[j].type = "EOF"}
    IN  IF S = {} THEN 0 ELSE CHOOSE j \in S : \A l \in S : j <= l

C31_StatAfterMarkerSafe ==
    (MarkerAt # 0 /\ MarkerAt < Len(recvd)
     /\ Last(recvd).type \in {"STAT", "EOF"})
        => /\ pc # "panic"
           /\ \A j \in (MarkerAt + 1)..Len(recvd) :
                 recvd[j].type = "STAT"
                    => NativeStat(recvd[j].stat) \notin Range(walkChan)


\* ------------------------------------------------------------------
\* C32: Receive terminates once the peer's stream has reported its end or
\* a receive error: whenever the packet-dispatch task has returned, the
\* diff/walk task returns too and Receive returns.
\* ------------------------------------------------------------------
C32_ReturnsAfterDispatch == (pc \in {"ok", "err"}) ~> (ret # "running")


\* ------------------------------------------------------------------
\* C33: in one transfer the diff/walk task sends at most one terminal
\* packet: FIN at most once, ERR at most once and never both; it sends none
\* while it runs, FIN when it returns nil and ERR when it returns an error.
\* ------------------------------------------------------------------

\* The places of the packets of type t among those the receiver sent.
SentOf(t) == {n \in 1..Len(sent) : sent[n].type = t}

C33_OneTerminalPacket ==
    /\ Cardinality(SentOf("FIN") \cup SentOf("ERR")) <= 1
    /\ wpc \in {"fill", "wait"} => SentOf("FIN") \cup SentOf("ERR") = {}
    /\ wpc = "ok" => (Cardinality(SentOf("FIN")) = 1 /\ SentOf("ERR") = {})
    /\ wpc = "err" => (Cardinality(SentOf("ERR")) = 1 /\ SentOf("FIN") = {})

\* The task failed after a content pull had sent its REQ: the ERR is the
\* one terminal packet, after the REQ.
C33_Witness ==
    /\ wpc = "err" /\ ret # "running"
    /\ SentOf("REQ") # {}
    /\ Last(sent).type = "ERR"


\* ------------------------------------------------------------------
\* C34: asyncDataFunc registers the sink of an identifier before it sends
\* the REQ, so a Data packet the peer sends in response to a REQ finds a
\* registered sink; when sending the REQ fails the call returns the send
\* error, the path stays removed from the pending table and the sink stays
\* registered.
\* ------------------------------------------------------------------

\* This step sends the REQ of call k.
SendsReq(k) ==
    /\ Len(sent') = Len(sent) + 1
    /\ Last(sent').type = "REQ"
    /\ Last(sent').call = k

\* The sending of the REQ of call k fails in this step.
ReqFails(k) == calls[k].pc = "registered" /\ calls'[k].pc = "fail"

C34_RegisteredBeforeReq ==
    [][/\ \A k \in 1..Len(calls) :
             /\ SendsReq(k)
                   => /\ calls[k].id \in DOMAIN pipes
                      /\ pipes[calls[k].id] = k
                      /\ Last(sent').id = calls[k].id
             /\ ReqFails(k)
                   => /\ calls'[k].cerr = "send error"
                      /\ files' = files /\ pipes' = pipes
                      /\ CallPath(k) \notin DOMAIN files'
                      /\ calls[k].id \in DOMAIN pipes'
                      /\ pipes'[calls[k].id] = k
       /\ (Receives /\ Last(recvd').type = "DATA")
             => /\ Last(recvd').id \in DOMAIN pipes
                /\ err' # "invalid file request"]_vars

\* The REQ of one call could not be sent and its sink is still registered,
\* while the Data that answered the REQ of another call reached its sink.
C34_Witness ==
    \E k, l \in 1..Len(calls) :
        /\ calls[k].pc = "fail" /\ calls[k].cerr = "send error"
        /\ calls[k].id \in DOMAIN pipes
        /\ CallPath(k) \notin DOMAIN files
        /\ Written(calls[l].ops) # <<>>


\* ------------------------------------------------------------------
\* C35: the pending table contains a path only if that path was received
\* as a regular-file entry that, in a metadata-only transfer, the filter
\* accepted; a path received only as entries that are not regular files or
\* that the filter rejected is not pending, so asyncDataFunc fails for it;
\* yet each such entry advances the identifier counter by one.
\* ------------------------------------------------------------------

\* Received packet m is a Stat that can be requested: a regular file that
\* is not filtered out.
Eligible(m) ==
    /\ m.type = "STAT"
    /\ fileCanRequestData(m.stat.mode)
    /\ metadataTransfer => m.keep

\* Path p is, in history h, the path of an entry that can be requested.
ReceivedEligible(h, p) ==
    \E j \in 1..Len(h) : Eligible(h[j]) /\ FromSlash(h[j].stat.path) = p

EmbeddedReleases(s) ==
    LET w == refShares[s].wraps
    IN  IF w.kind = "mref" THEN mutableRefs[w.id].released
        ELSE refHandles[w.id].released

C36_ReleasedOnceAtLastClone ==
    [][\A s \in 1..Len(refShares) :
          EmbeddedReleases(s)' # EmbeddedReleases(s)
             => /\ refShares'[s].refs = {}
                /\ EmbeddedReleases(s) = 0
                /\ EmbeddedReleases(s)' = 1]_vars


\* ------------------------------------------------------------------
\* C37: a handle getRefCacheDir returns is backed by a mutable ref that
\* has not been released, for any interleaving of getRefCacheDir and
\* Release calls for the same key on the same manager.
\* ------------------------------------------------------------------

C37_ReturnedHandleBacked ==
    [][\A h \in 1..Len(refHandles') :
          (h > Len(refHandles) /\ refHandles'[h].user)
             => ~BackingReleased(h)']_vars


\* ------------------------------------------------------------------
\* C38: with sharing mode SHARED, while the process-wide table has a share
\* with outstanding handles for a key, a getRefCacheDir call for the key
\* from any manager returns a handle backed by the mutable ref of that
\* share and makes no new one; when the last handle is released the key is
\* removed from the table.
\* ------------------------------------------------------------------

\* Goroutine p returns handle h from getRefCacheDir in this step.
ReturnsHandle(p, h) ==
    /\ proc[p].pc \in {"clone", "gclone", "scan", "decide"}
    /\ proc'[p].pc = "idle"
    /\ h > Len(refHandles) /\ h <= Len(refHandles')
    /\ refHandles'[h].user

C38_SharedSameRef ==
    [][/\ \A p \in Procs, h \in 1..Len(refHandles') :
            (/\ ReturnsHandle(p, h)
             /\ proc[p].sharing = "SHARED"
             /\ shares[proc[p].key] # 0)
               => /\ BackingRef(h)' = refShares[shares[proc[p].key]].wraps.id
                  /\ mutableRefs' = mutableRefs
       /\ \A k \in Keys :
            shares'[k] # 0 => refShares'[shares'[k]].refs # {}]_vars


\* ------------------------------------------------------------------
\* C39: in blocking mode (LOCKED) getRefCacheDirNoCache makes no new
\* mutable ref after a pass that found a locked ref: it waits and retries,
\* or returns the cancellation cause; in non-blocking mode (PRIVATE,
\* SHARED) it never waits and goes on to make a new ref.  The lock of the
\* key is held exactly from the entry to the return except during the wait
\* between retries, and no call returns holding it.
\* ------------------------------------------------------------------

\* Goroutine p is inside getRefCacheDirNoCache and not in the wait.
InNoCache(p) == proc[p].pc \in {"scan", "decide"}

C39_KeyLockBalanced ==
    \A p \in Procs, k \in Keys :
       p \in cacheRefsLocker[k] <=> (InNoCache(p) /\ proc[p].key = k)

C39_BlockingNeverCreates ==
    [][\A p \in Procs :
          (proc[p].pc = "decide" /\ proc'[p] # proc[p])
             => IF proc[p].sharing = "LOCKED" /\ proc[p].seen = "locked"
                THEN /\ proc'[p].pc = "wait"
                     /\ mutableRefs' = mutableRefs
                     /\ cacheRefsLocker'[proc[p].key] = {}
                ELSE /\ proc'[p].pc = "idle"
                     /\ proc'[p].res \in {"ok", "err"}
                     /\ proc'[p].res = "ok"
                           => /\ Len(mutableRefs') = Len(mutableRefs) + 1
                              /\ Last(mutableRefs').made]_vars

C39_CancelReturnsCause ==
    [][\A p \in Procs :
          proc'[p].res = "cancelled" /\ proc[p].res # "cancelled"
             => /\ proc[p].pc = "wait"
                /\ mutableRefs' = mutableRefs
                /\ refHandles' = refHandles]_vars

C39_BlockingWaits ==
    /\ []C39_KeyLockBalanced
    /\ C39_BlockingNeverCreates
    /\ C39_CancelReturnsCause

\* A LOCKED call has returned the cancellation cause, and another call has
\* made a new ref.
C39_Witness ==
    /\ \E p \in Procs : proc[p].res = "cancelled"
    /\ \E r \in 1..Len(mutableRefs) :
          mutableRefs[r].made /\ mutableRefs[r].released = 0
    /\ \A k \in Keys : cacheRefsLocker[k] = {}


\* ------------------------------------------------------------------
\* C40: concurrent getRefCacheDir and Release calls do not deadlock: the
\* mutexes are taken in one order (manager, share of the manager,
\* process-wide table, then the key or the process-wide share), some call
\* in progress can always take a step, and every call returns unless a call
\* is waiting on a locked cache ref; such a call keeps the mutex of its
\* manager, so the calls queued on that manager wait with it.
\* ------------------------------------------------------------------

\* The place of a mutex in the order of acquisition.
RankManager == 1
RankManagerShare == 2
RankTable == 3
RankKey == 4
RankTableShare == 4

\* The ranks of the mutexes goroutine p holds.
HeldRanks(p) ==
    {RankManager : m \in {m \in Managers : p \in cacheMountsMu[m]}}
    \cup {IF refShares[s].main THEN RankTableShare ELSE RankManagerShare :
             s \in {s \in 1..Len(refShares) : p \in refShares[s].mu}}
    \cup (IF p \in sharesMu THEN {RankTable} ELSE {})
    \cup {RankKey : k \in {k \in Keys : p \in cacheRefsLocker[k]}}

\* The rank of the mutex goroutine p is about to take (0: none).
WantedRank(p) ==
    CASE proc[p].pc = "lock" -> RankManager
      [] proc[p].pc = "clone" -> RankManagerShare
      [] proc[p].pc = "glock" -> RankTable
      [] proc[p].pc = "gclone" -> RankTableShare
      [] proc[p].pc = "klock" -> RankKey
      [] proc[p].pc = "rglock" -> RankTable
      [] proc[p].pc = "rlock" ->
            IF refShares[refHandles[Current(p)].share].main
            THEN RankTableShare ELSE RankManagerShare
      [] OTHER -> 0

C40_LockOrder ==
    \A p \in Procs :
       WantedRank(p) # 0 => \A r \in HeldRanks(p) : r < WantedRank(p)

\* A call of goroutine p is in progress.
InCall(p) == proc[p].pc # "idle"

\* Goroutine p is in a call that waits on a locked cache ref: in the wait of
\* lines 135-142 or on its way round the loop.
WaitsOnLockedRef(p) ==
    /\ proc[p].sharing = "LOCKED"
    /\ \/ proc[p].pc = "wait"
       \/ proc[p].pc \in {"scan", "decide"} /\ proc[p].seen = "locked"

C40_NoDeadlock ==
    (\E p \in Procs : InCall(p)) => \E p \in Procs : ENABLED ProcStep(p)

====
